---- MODULE Spec2Model ----
(***************************************************************************)
(* A model of the tax advisory resolver of the CFO Co-Pilot suite          *)
(* (src/tax_engine.py, class TaxEngine), of its compliance checklist       *)
(* generator (src/compliance_engine.py, class ComplianceEngine) and of its *)
(* compliance validator (src/compliance_validator.py).                     *)
(*                                                                         *)
(* Python values are represented as follows.                               *)
(*   - An enum member is its member name ("INDIA"); its value is the       *)
(*     string the enum class maps it to ("India").                         *)
(*   - Optional[x] is a sequence of length 0 (None) or 1 (<<x>>).          *)
(*   - A float rate is the integer number of percent (every rate of the    *)
(*     tables is a whole number).                                          *)
(*   - A dict is the sequence of its items in insertion order, which is    *)
(*     the order Python iterates it in.                                    *)
(*   - A TaxRate object of the rate table is named by its place            *)
(*     <<jurisdiction, category, index>>; a reference to it is that place, *)
(*     and reading the reference reads the table.                          *)
(*   - A dict passed in by a caller is a function from its keys to         *)
(*     Optional values; a key that is not in the dict is not in DOMAIN.    *)
(*   - A datetime is [year, month, day, hour]: the time of day is kept to  *)
(*     the hour.                                                           *)
(***************************************************************************)
EXTENDS Integers, Sequences, FiniteSets, TLC

VARIABLES
    tax_rates,          \* TaxEngine.tax_rates: jurisdiction -> category -> <<[tax_type, rate]>>
    tax_treaties,       \* TaxEngine.tax_treaties: <<country, country>> -> DTAATreaty
    compliance_forms,   \* TaxEngine.compliance_forms: jurisdiction -> tax type -> <<TaxForm>>
    ret,                \* the outcome of the latest get_tax_advice call
    kept,               \* the outcome of an earlier call, still held by its caller
    calls,              \* number of get_tax_advice calls made so far
    frames,             \* per thread: the frame of its running get_tax_advice call
    request,            \* the call made on the checklist generator or the validator
    response            \* what that call returned or raised

vars == <<tax_rates, tax_treaties, compliance_forms, ret, kept, calls, frames,
         request, response>>

engine == <<tax_rates, tax_treaties, compliance_forms>>

-----------------------------------------------------------------------------
(* Bounds of the model.                                                    *)

\* get_tax_advice calls made on one engine in a sequential run
MaxCalls == 3

-----------------------------------------------------------------------------
(* Enumerations: member name -> value.                                     *)

None == << >>

Some(x) == << x >>

TaxJurisdictionValues ==
    [ INDIA |-> "India", USA |-> "United States", UK |-> "United Kingdom",
      EU_DE |-> "Germany", EU_FR |-> "France", SINGAPORE |-> "Singapore" ]

ServiceCategoryValues ==
    [ CONSULTING |-> "Consulting", TECHNICAL |-> "Technical Services",
      PROFESSIONAL |-> "Professional Services", ROYALTY |-> "Royalty/License",
      SAAS |-> "Software as a Service", GOODS |-> "Goods", PRINTING |-> "Printing",
      ADVERTISING |-> "Advertising", COMMISSION |-> "Commission", RENT |-> "Rent",
      MANPOWER |-> "Manpower Services", CLOUD_SERVICES |-> "Cloud Services",
      DATA_PROCESSING |-> "Data Processing", RESEARCH |-> "Research and Development",
      LEGAL |-> "Legal Services", ACCOUNTING |-> "Accounting Services",
      DIGITAL_CONTENT |-> "Digital Content", TELECOM |-> "Telecommunication Services",
      FINANCIAL |-> "Financial Services", INSURANCE |-> "Insurance Services",
      ECOMMERCE |-> "E-commerce Services" ]

\* Enum(value): the member whose value is s, or None where Python raises ValueError.
EnumLookup(values, s) ==
    LET hits == { m \in DOMAIN values : values[m] = s }
    IN  IF hits = {} THEN None ELSE Some(CHOOSE m \in hits : TRUE)

TaxJurisdiction(s) == EnumLookup(TaxJurisdictionValues, s)

ServiceCategory(s) == EnumLookup(ServiceCategoryValues, s)

-----------------------------------------------------------------------------
(* Value objects.                                                          *)

\* TaxRate(rate, currency_threshold=None, currency="USD", notes=None)
TaxRate(rate, notes) ==
    [ rate |-> rate, currency_threshold |-> None, currency |-> "USD", notes |-> notes ]

TaxForm(form_number, name, filing_deadline, notes) ==
    [ form_number |-> form_number, name |-> name,
      filing_deadline |-> filing_deadline, notes |-> Some(notes) ]

Item(tax_type, rate) == [ tax_type |-> tax_type, rate |-> rate ]

-----------------------------------------------------------------------------
(* The tables TaxEngine.__init__ loads.                                    *)

LoadTaxTreaties ==
    ( << "India", "United States" >> :>
        [ country1 |-> "India", country2 |-> "United States",
          effective_date |-> << 1991, 1, 1 >>,
          withholding_rates |->
              [ royalty |-> 15, technical_services |-> 15, interest |-> 15, dividend |-> 15 ],
          permanent_establishment_days |-> 90,
          special_provisions |->
              << "Article 12 covers Royalties and Technical Services",
                 "Reduced rates available with Tax Residency Certificate" >> ] )
    @@
    ( << "India", "United Kingdom" >> :>
        [ country1 |-> "India", country2 |-> "United Kingdom",
          effective_date |-> << 1994, 1, 1 >>,
          withholding_rates |->
              [ royalty |-> 15, technical_services |-> 15, interest |-> 15, dividend |-> 15 ],
          permanent_establishment_days |-> 90,
          special_provisions |->
              << "Article 13 covers Royalties and Technical Services",
                 "Reduced rates available with Tax Residency Certificate" >> ] )
    @@
    ( << "Singapore", "France" >> :>
        [ country1 |-> "Singapore", country2 |-> "France",
          effective_date |-> << 2016, 1, 1 >>,
          withholding_rates |->
              [ royalty |-> 5, technical_services |-> 0, interest |-> 10, dividend |-> 15 ],
          permanent_establishment_days |-> 183,
          special_provisions |->
              << "No withholding tax on technical services",
                 "Digital services may be subject to DST" >> ] )

eu_member_states ==
    { "Germany", "France", "Italy", "Spain", "Netherlands",
      "Belgium", "Austria", "Ireland", "Greece", "Portugal",
      "Finland", "Sweden", "Denmark", "Poland", "Czech Republic",
      "Romania", "Hungary", "Slovakia", "Croatia", "Bulgaria",
      "Lithuania", "Slovenia", "Latvia", "Estonia", "Cyprus",
      "Luxembourg", "Malta" }

IndiaRates ==
    [ TECHNICAL |-> << Item("TDS", TaxRate(10, Some("Section 194J applicable"))),
                       Item("GST", TaxRate(18, None)),
                       Item("RCM", TaxRate(18, Some("For foreign vendors"))) >>,
      CONSULTING |-> << Item("TDS", TaxRate(10, Some("Section 194J applicable"))),
                        Item("GST", TaxRate(18, None)) >>,
      CLOUD_SERVICES |-> << Item("TDS", TaxRate(2, Some("Section 194C applicable"))),
                            Item("GST", TaxRate(18, None)),
                            Item("RCM", TaxRate(18, Some("For foreign vendors"))) >>,
      DATA_PROCESSING |-> << Item("TDS", TaxRate(2, Some("Section 194C applicable"))),
                             Item("GST", TaxRate(18, None)) >>,
      RESEARCH |-> << Item("TDS", TaxRate(10, Some("Section 194J applicable"))),
                      Item("GST", TaxRate(18, None)) >>,
      LEGAL |-> << Item("TDS", TaxRate(10, Some("Section 194J applicable"))),
                   Item("GST", TaxRate(18, None)) >>,
      ACCOUNTING |-> << Item("TDS", TaxRate(10, Some("Section 194J applicable"))),
                        Item("GST", TaxRate(18, None)) >>,
      DIGITAL_CONTENT |-> << Item("TDS", TaxRate(2, Some("Section 194C applicable"))),
                             Item("GST", TaxRate(18, None)),
                             Item("RCM", TaxRate(18, Some("For foreign vendors"))) >>,
      TELECOM |-> << Item("TDS", TaxRate(2, Some("Section 194C applicable"))),
                     Item("GST", TaxRate(18, None)) >>,
      FINANCIAL |-> << Item("TDS", TaxRate(10, Some("Section 194J applicable"))),
                       Item("GST", TaxRate(18, Some("Certain services exempt"))) >>,
      INSURANCE |-> << Item("TDS", TaxRate(5, Some("Section 194D applicable"))),
                       Item("GST", TaxRate(18, None)) >>,
      ECOMMERCE |-> << Item("TDS", TaxRate(1, Some("Section 194-O applicable"))),
                       Item("GST", TaxRate(18, None)) >> ]

FranceRates ==
    [ TECHNICAL |-> << Item("TVA", TaxRate(20, Some("Standard French VAT rate"))),
                       Item("WITHHOLDING", TaxRate(15, Some("For non-EU residents"))) >>,
      CLOUD_SERVICES |-> << Item("TVA", TaxRate(20, Some("Digital services VAT"))),
                            Item("WITHHOLDING", TaxRate(15, Some("For non-EU digital services"))) >>,
      DATA_PROCESSING |-> << Item("TVA", TaxRate(20, Some("Standard French VAT rate"))) >>,
      RESEARCH |-> << Item("TVA", TaxRate(20, Some("Standard French VAT rate"))),
                      Item("WITHHOLDING", TaxRate(15, Some("For non-EU R&D services"))) >>,
      DIGITAL_CONTENT |-> << Item("TVA", TaxRate(20, Some("Digital services VAT"))),
                             Item("WITHHOLDING", TaxRate(15, Some("For non-EU digital content"))) >>,
      FINANCIAL |-> << Item("TVA", TaxRate(0, Some("Financial services exempt from VAT"))) >>,
      INSURANCE |-> << Item("TVA", TaxRate(0, Some("Insurance services exempt from VAT"))) >>,
      ECOMMERCE |-> << Item("TVA", TaxRate(20, Some("Digital services VAT"))),
                       Item("WITHHOLDING", TaxRate(15, Some("For non-EU e-commerce"))) >> ]

SingaporeRates ==
    [ TECHNICAL |-> << Item("GST", TaxRate(8, Some("Standard Singapore GST rate"))),
                       Item("WITHHOLDING", TaxRate(15, Some("Technical service withholding"))) >>,
      CLOUD_SERVICES |-> << Item("GST", TaxRate(8, Some("Standard Singapore GST rate"))),
                            Item("WITHHOLDING", TaxRate(15, Some("Digital service withholding"))) >>,
      DATA_PROCESSING |-> << Item("GST", TaxRate(8, Some("Standard Singapore GST rate"))),
                             Item("WITHHOLDING", TaxRate(15, Some("Technical service withholding"))) >>,
      RESEARCH |-> << Item("GST", TaxRate(8, Some("Standard Singapore GST rate"))),
                      Item("WITHHOLDING", TaxRate(15, Some("Technical service withholding"))) >>,
      DIGITAL_CONTENT |-> << Item("GST", TaxRate(8, Some("Standard Singapore GST rate"))),
                             Item("WITHHOLDING", TaxRate(15, Some("Digital service withholding"))) >>,
      FINANCIAL |-> << Item("GST", TaxRate(0, Some("Financial services exempt from GST"))) >>,
      INSURANCE |-> << Item("GST", TaxRate(0, Some("Insurance services exempt from GST"))) >>,
      ECOMMERCE |-> << Item("GST", TaxRate(8, Some("Standard Singapore GST rate"))),
                       Item("WITHHOLDING", TaxRate(15, Some("Digital service withholding"))) >> ]

LoadTaxRates ==
    [ INDIA |-> IndiaRates, EU_FR |-> FranceRates, SINGAPORE |-> SingaporeRates ]

LoadComplianceRequirements ==
    [ INDIA |->
        [ TDS |-> << TaxForm("26Q", "TDS Return for Non-salary Payments", "Quarterly",
                             "Due within 30 days from end of quarter"),
                     TaxForm("15CA", "Foreign Remittance Certificate", "Before remittance",
                             "Required for all foreign remittances"),
                     TaxForm("15CB", "CA Certificate for Foreign Remittance", "Before remittance",
                             "Required if payment exceeds INR 5 lakhs") >> ],
      USA |->
        [ WITHHOLDING |-> << TaxForm("1042-S", "Foreign Person's U.S. Source Income", "March 15",
                                     "Annual filing required"),
                             TaxForm("W-8BEN", "Certificate of Foreign Status", "Before payment",
                                     "Valid for 3 years") >> ],
      UK |->
        [ VAT |-> << TaxForm("VAT Return", "Value Added Tax Return", "Quarterly",
                             "Due one month and seven days after quarter end") >>,
          CIS |-> << TaxForm("CIS300", "Contractor Monthly Return", "Monthly",
                             "Due by 19th of each month") >>,
          WITHHOLDING |-> << TaxForm("CT61", "Return of Income Tax", "Quarterly",
                                     "For payments to non-residents") >> ],
      EU_DE |->
        [ MWST |-> << TaxForm("UStVA", "Umsatzsteuer-Voranmeldung", "Monthly/Quarterly",
                              "VAT advance return"),
                      TaxForm("ZM", "Zusammenfassende Meldung", "Monthly",
                              "EU sales listing") >> ],
      EU_FR |->
        [ TVA |-> << TaxForm("CA3", "TVA Return", "Monthly", "Standard VAT return"),
                     TaxForm("DES", "Declaration Europeenne de Services", "Monthly",
                             "EU services declaration") >> ],
      SINGAPORE |->
        [ GST |-> << TaxForm("F5", "GST Return", "Quarterly",
                             "Due one month after quarter end") >>,
          WITHHOLDING |-> << TaxForm("S45", "Withholding Tax Return", "Within 30 days",
                                     "Due within 30 days of payment") >> ] ]

-----------------------------------------------------------------------------
(* get_tax_advice, statement by statement.                                 *)
(*                                                                         *)
(* A frame holds the locals of one running call.  An entry of              *)
(* applicable_taxes is [tax_type, ref, obj]: ref = Some(place) when the    *)
(* dict value is the rate table's own TaxRate object at that place, and    *)
(* obj = Some(rate) when it is a TaxRate the call constructed.             *)

Args(payer, vendor, service, value, currency, has_pe, trc) ==
    [ payer_country |-> payer, vendor_country |-> vendor, service_type |-> service,
      transaction_value |-> value, currency |-> currency,
      has_permanent_establishment |-> has_pe, tax_residency_certificate |-> trc ]

CalledFrame(args) ==
    [ pc |-> "called", args |-> args,
      payer_jurisdiction |-> "unbound", service_category |-> "unbound",
      dtaa_treaty |-> None, pe_risk |-> FALSE, is_intra_eu |-> FALSE,
      i |-> 0, applicable_taxes |-> << >>, exemptions |-> << >>,
      compliance_notes |-> << >>, advice |-> None, value |-> None ]

\* self.tax_treaties.get((payer_country, vendor_country))
TreatyGet(treaties, payer_country, vendor_country) ==
    IF << payer_country, vendor_country >> \in DOMAIN treaties
    THEN Some(treaties[<< payer_country, vendor_country >>])
    ELSE None

_assess_permanent_establishment_risk(payer_country, vendor_country, has_pe, dtaa_treaty) ==
    IF has_pe THEN TRUE
    ELSE IF dtaa_treaty # None /\ dtaa_treaty[1].permanent_establishment_days > 0 THEN FALSE
    ELSE FALSE

\* treaty.withholding_rates.get(key)
WithholdingRateGet(treaty, key) ==
    IF key \in DOMAIN treaty.withholding_rates
    THEN Some(treaty.withholding_rates[key])
    ELSE None

_get_treaty_rate(treaty, service_category) ==
    IF service_category = "ROYALTY" THEN WithholdingRateGet(treaty, "royalty")
    ELSE IF service_category \in { "TECHNICAL", "CONSULTING" }
         THEN WithholdingRateGet(treaty, "technical_services")
    ELSE None

IsIntraEU(payer_country, vendor_country) ==
    payer_country \in eu_member_states /\ vendor_country \in eu_member_states

\* self.tax_rates.get(payer_jurisdiction, {}).get(service_category, {})
ServiceRates(table, payer_jurisdiction, service_category) ==
    IF payer_jurisdiction \in DOMAIN table
       /\ service_category \in DOMAIN table[payer_jurisdiction]
    THEN table[payer_jurisdiction][service_category]
    ELSE << >>

\* variant of InputsValid: the vendor country is converted to the enum as well
InputsValidWithVendor(args) ==
    /\ TaxJurisdiction(args.payer_country) # None
    /\ TaxJurisdiction(args.vendor_country) # None
    /\ ServiceCategory(args.service_type) # None

\* the enum conversions of lines 462-466; FALSE where they raise ValueError
InputsValid(args) ==
    /\ TaxJurisdiction(args.payer_country) # None
    /\ ServiceCategory(args.service_type) # None

\* lines 462-490: validation, treaty lookup, PE risk, intra-EU test
Enter(f, treaties) ==
    IF ~InputsValid(f.args)
    THEN [ f EXCEPT !.pc = "raised" ]
    ELSE LET a == f.args
             treaty == TreatyGet(treaties, a.payer_country, a.vendor_country)
         IN  [ f EXCEPT
                 !.pc = "loop",
                 !.payer_jurisdiction = TaxJurisdiction(a.payer_country)[1],
                 !.service_category = ServiceCategory(a.service_type)[1],
                 !.dtaa_treaty = treaty,
                 !.pe_risk = _assess_permanent_establishment_risk(
                                 a.payer_country, a.vendor_country,
                                 a.has_permanent_establishment, treaty),
                 !.is_intra_eu = IsIntraEU(a.payer_country, a.vendor_country) ]

\* python's str() of a float that holds a whole number
FloatStr(r) == ToString(r) \o ".0"

\* variant of SkipsWithholding: the test names the wrong TaxType member
SkipsWithholdingWrongType(f, tax_type) == f.is_intra_eu /\ tax_type = "TDS"

\* line 494: the intra-EU skip
SkipsWithholding(f, tax_type) == f.is_intra_eu /\ tax_type = "WITHHOLDING"

\* variant of TreatyApplies: the treaty rate needs a residency certificate
TreatyAppliesWithCertificate(f, tax_type, rate) ==
    /\ f.args.tax_residency_certificate
    /\ f.dtaa_treaty # None
    /\ tax_type \in { "WITHHOLDING", "TDS" }
    /\ LET treaty_rate == _get_treaty_rate(f.dtaa_treaty[1], f.service_category)
       IN  treaty_rate # None /\ treaty_rate[1] < rate.rate

\* variant of TreatyApplies: the treaty rate is taken whenever there is one
TreatyAppliesAlways(f, tax_type, rate) ==
    /\ f.dtaa_treaty # None
    /\ tax_type \in { "WITHHOLDING", "TDS" }
    /\ _get_treaty_rate(f.dtaa_treaty[1], f.service_category) # None

\* lines 499-501: whether the treaty rate replaces the table's rate
TreatyApplies(f, tax_type, rate) ==
    /\ f.dtaa_treaty # None
    /\ tax_type \in { "WITHHOLDING", "TDS" }
    /\ LET treaty_rate == _get_treaty_rate(f.dtaa_treaty[1], f.service_category)
       IN  treaty_rate # None /\ treaty_rate[1] < rate.rate

\* lines 502-507: the TaxRate constructed for a treaty rate
TreatyTaxRate(f, rate) ==
    [ rate |-> _get_treaty_rate(f.dtaa_treaty[1], f.service_category)[1],
      currency_threshold |-> rate.currency_threshold,
      currency |-> f.args.currency,
      notes |-> Some("DTAA rate applied (" \o f.args.payer_country \o "-"
                     \o f.args.vendor_country \o " treaty)") ]

\* variant of StampCurrency: the write is skipped for the default currency
StampCurrencyIfGiven(rate, currency) ==
    IF currency = "USD" THEN rate ELSE [ rate EXCEPT !.currency = currency ]

\* line 513: rate.currency = currency
StampCurrency(rate, currency) == [ rate EXCEPT !.currency = currency ]

\* lines 492-514: one iteration of the loop over service_rates.items()
LoopBody(f, table) ==
    LET j == f.payer_jurisdiction
        c == f.service_category
        k == f.i + 1
        item == ServiceRates(table, j, c)[k]
    IN  IF SkipsWithholding(f, item.tax_type)
        THEN [ frame |-> [ f EXCEPT !.i = k,
                             !.exemptions = Append(@,
                                 "Intra-EU supply - No withholding tax applicable") ],
               table |-> table ]
        ELSE IF TreatyApplies(f, item.tax_type, item.rate)
        THEN LET rate == StampCurrency(TreatyTaxRate(f, item.rate), f.args.currency)
             IN  [ frame |-> [ f EXCEPT !.i = k,
                                 !.compliance_notes = Append(@,
                                     "DTAA benefit applied: Rate reduced to "
                                     \o FloatStr(rate.rate) \o "%"),
                                 !.applicable_taxes = Append(@,
                                     [ tax_type |-> item.tax_type, ref |-> None,
                                       obj |-> Some(rate) ]) ],
                   table |-> table ]
        ELSE [ frame |-> [ f EXCEPT !.i = k,
                             !.applicable_taxes = Append(@,
                                 [ tax_type |-> item.tax_type,
                                   ref |-> Some(<< j, c, k >>), obj |-> None ]) ],
               table |-> [ table EXCEPT ![j][c][k].rate =
                                            StampCurrency(@, f.args.currency) ] ]

LoopDone(f, table) ==
    f.i >= Len(ServiceRates(table, f.payer_jurisdiction, f.service_category))

\* jurisdiction_forms[tax_type] when present, else nothing
FormsFor(forms, payer_jurisdiction, tax_type) ==
    IF payer_jurisdiction \in DOMAIN forms /\ tax_type \in DOMAIN forms[payer_jurisdiction]
    THEN forms[payer_jurisdiction][tax_type]
    ELSE << >>

\* variant of FilingRequirements: forms of the jurisdiction, whatever the taxes
FilingRequirementsOfJurisdiction(forms, payer_jurisdiction, applicable_taxes) ==
    IF payer_jurisdiction \in DOMAIN forms
    THEN forms[payer_jurisdiction][CHOOSE t \in DOMAIN forms[payer_jurisdiction] : TRUE]
    ELSE << >>

\* variant of FilingRequirements: the loop stops after the first tax type
FilingRequirementsFirstOnly(forms, payer_jurisdiction, applicable_taxes) ==
    IF applicable_taxes = << >> THEN << >>
    ELSE FormsFor(forms, payer_jurisdiction, Head(applicable_taxes).tax_type)

RECURSIVE FilingRequirements(_, _, _)
\* lines 516-520: forms of the tax types in applicable_taxes, in its key order
FilingRequirements(forms, payer_jurisdiction, applicable_taxes) ==
    IF applicable_taxes = << >> THEN << >>
    ELSE FormsFor(forms, payer_jurisdiction, Head(applicable_taxes).tax_type)
         \o FilingRequirements(forms, payer_jurisdiction, Tail(applicable_taxes))

\* lines 522-534: the informational notes appended after the loop
InformationalNotes(f) ==
    (IF f.args.tax_residency_certificate
     THEN << "Tax Residency Certificate available - DTAA benefits applicable" >>
     ELSE << >>)
    \o (IF f.args.has_permanent_establishment
        THEN << "Permanent Establishment exists - Local tax laws applicable" >>
        ELSE << >>)
    \o (IF f.is_intra_eu
        THEN << "Intra-EU transaction - Special VAT rules apply" >>
        ELSE << >>)

\* lines 516-543: the TaxAdvice returned
Compose(f, forms) ==
    [ applicable_taxes |-> f.applicable_taxes,
      filing_requirements |->
          FilingRequirements(forms, f.payer_jurisdiction, f.applicable_taxes),
      dtaa_treaty |-> f.dtaa_treaty,
      permanent_establishment_risk |-> f.pe_risk,
      exemptions |-> f.exemptions,
      compliance_notes |-> f.compliance_notes \o InformationalNotes(f) ]

\* the TaxRate an applicable_taxes entry refers to, as read now
Deref(entry, table) ==
    IF entry.ref # None
    THEN table[entry.ref[1][1]][entry.ref[1][2]][entry.ref[1][3]].rate
    ELSE entry.obj[1]

\* a TaxAdvice as its holder reads it now (what to_dict would show)
View(advice, table) ==
    [ advice EXCEPT !.applicable_taxes =
        [ n \in 1..Len(advice.applicable_taxes) |->
            Item(advice.applicable_taxes[n].tax_type,
                 Deref(advice.applicable_taxes[n], table)) ] ]

RECURSIVE RunLoop(_, _)
\* the whole loop of lines 492-514
RunLoop(f, table) ==
    IF LoopDone(f, table) THEN [ frame |-> f, table |-> table ]
    ELSE LET r == LoopBody(f, table) IN RunLoop(r.frame, r.table)

-----------------------------------------------------------------------------
(* Outcomes of a call, as the caller has them.                             *)

\* no call made on the checklist generator or the validator
NoRequest == [ op |-> "none", args |-> << >> ]

NoResponse == [ outcome |-> "none", value |-> None, error |-> "" ]

NoCall ==
    [ outcome |-> "none", at |-> 0, args |-> None, advice |-> None, value |-> None ]

\* raise ValueError("Invalid country or service type"): no TaxAdvice exists
Raised(args, n) ==
    [ outcome |-> "raised", at |-> n, args |-> Some(args), advice |-> None,
      value |-> None ]

\* the TaxAdvice object the n-th call returned, and what it read as at the return
Returned(args, n, advice, table) ==
    [ outcome |-> "returned", at |-> n, args |-> Some(args), advice |-> Some(advice),
      value |-> Some(View(advice, table)) ]

-----------------------------------------------------------------------------
(* Inputs.                                                                 *)

JurisdictionNames == { TaxJurisdictionValues[m] : m \in DOMAIN TaxJurisdictionValues }

CategoryNames == { ServiceCategoryValues[m] : m \in DOMAIN ServiceCategoryValues }

\* every jurisdiction, and a string that is none
PayerInputs == JurisdictionNames \cup { "Atlantis" }

\* treaty partners, EU members in and out of the enumeration, and a stranger
VendorInputs == { "India", "United States", "France", "Singapore", "Italy", "Atlantis" }

\* every service category, and a string that is none
ServiceInputs == CategoryNames \cup { "Bogus" }

\* the default currency of TaxRate, and another
CurrencyInputs == { "USD", "INR" }

ValueInputs == { 10000 }

\* the whole input domain, for a single call
AllArgs ==
    { Args(p, v, s, x, c, pe, trc) :
        p \in PayerInputs, v \in VendorInputs, s \in ServiceInputs, x \in ValueInputs,
        c \in CurrencyInputs, pe \in BOOLEAN, trc \in BOOLEAN }

\* inputs of the calls of a sequence: both directions of a treaty pair, a
\* treaty that lowers a rate, an intra-EU pair, rows that are stamped; the
\* flags at their defaults
SeqArgs ==
    { Args(p, v, s, x, c, FALSE, FALSE) :
        p \in { "India", "United States", "France", "Singapore", "Atlantis" },
        v \in { "India", "United States", "France" },
        s \in { "Technical Services" }, x \in ValueInputs,
        c \in CurrencyInputs }

\* two callers of one (payer, category) who differ in currency
ThreadArgs ==
    { << Args(p, v, s, x, c1, FALSE, FALSE), Args(p, v, s, x, c2, FALSE, FALSE) >> :
        p \in { "India", "France", "Singapore" }, v \in { "United States", "France" },
        s \in { "Technical Services", "Data Processing" }, x \in ValueInputs,
        c1 \in { "USD", "INR" }, c2 \in { "EUR" } }

-----------------------------------------------------------------------------
(* One engine, called sequentially; a caller may go on holding an advice.  *)

EngineInit ==
    /\ tax_rates = LoadTaxRates
    /\ tax_treaties = LoadTaxTreaties
    /\ compliance_forms = LoadComplianceRequirements

Init ==
    /\ EngineInit
    /\ ret = NoCall
    /\ kept = NoCall
    /\ calls = 0
    /\ request = NoRequest
    /\ response = NoResponse
    /\ frames = << >>

\* TaxEngine.get_tax_advice, lines 437-543, as one call
GetTaxAdvice(args) ==
    /\ calls < MaxCalls
    /\ calls' = calls + 1
    /\ LET f == Enter(CalledFrame(args), tax_treaties)
       IN  IF f.pc = "raised"
           THEN /\ ret' = Raised(args, calls + 1)
                /\ tax_rates' = tax_rates
           ELSE LET r == RunLoop(f, tax_rates)
                IN  /\ tax_rates' = r.table
                    /\ ret' = Returned(args, calls + 1,
                                     Compose(r.frame, compliance_forms), r.table)
    /\ kept' \in { kept, ret }
    /\ UNCHANGED << tax_treaties, compliance_forms, frames, request, response >>

Next == \E args \in SeqArgs : GetTaxAdvice(args)

Spec == Init /\ [][Next]_vars

-----------------------------------------------------------------------------
(* The same call, statement by statement, in the threads that run it.      *)

\* lines 462-490
StepEnter(t) ==
    /\ frames[t].pc = "called"
    /\ frames' = [ frames EXCEPT ![t] = Enter(@, tax_treaties) ]
    /\ UNCHANGED << engine, ret, kept, calls, request, response >>

\* lines 492-514, one iteration
StepLoop(t) ==
    /\ frames[t].pc = "loop"
    /\ ~LoopDone(frames[t], tax_rates)
    /\ LET r == LoopBody(frames[t], tax_rates)
       IN  /\ frames' = [ frames EXCEPT ![t] = r.frame ]
           /\ tax_rates' = r.table
    /\ UNCHANGED << tax_treaties, compliance_forms, ret, kept, calls, request, response >>

\* lines 516-543
StepReturn(t) ==
    /\ frames[t].pc = "loop"
    /\ LoopDone(frames[t], tax_rates)
    /\ LET advice == Compose(frames[t], compliance_forms)
       IN  frames' = [ frames EXCEPT ![t] =
                         [ @ EXCEPT !.pc = "returned", !.advice = Some(advice),
                                    !.value = Some(View(advice, tax_rates)) ] ]
    /\ UNCHANGED << engine, ret, kept, calls, request, response >>

NextStep ==
    \/ \E t \in DOMAIN frames : StepEnter(t)
    \/ \E t \in DOMAIN frames : StepLoop(t)
    \/ \E t \in DOMAIN frames : StepReturn(t)

\* a fresh engine and one call, over the whole input domain
InitFresh ==
    /\ EngineInit
    /\ ret = NoCall
    /\ kept = NoCall
    /\ calls = 0
    /\ request = NoRequest
    /\ response = NoResponse
    /\ frames \in { << CalledFrame(a) >> : a \in AllArgs }

SpecFresh == InitFresh /\ [][NextStep]_vars

\* a fresh engine and two threads calling it at once
InitThreads ==
    /\ EngineInit
    /\ ret = NoCall
    /\ kept = NoCall
    /\ calls = 0
    /\ request = NoRequest
    /\ response = NoResponse
    /\ frames \in { << CalledFrame(a[1]), CalledFrame(a[2]) >> : a \in ThreadArgs }

SpecThreads == InitThreads /\ [][NextStep]_vars

-----------------------------------------------------------------------------
(* What the properties below speak of.                                     *)

Range(seq) == { seq[n] : n \in 1..Len(seq) }

TaxTypesOf(items) == { items[n].tax_type : n \in 1..Len(items) }

IntraEuExemption == "Intra-EU supply - No withholding tax applicable"

DtaaNote(r) == "DTAA benefit applied: Rate reduced to " \o FloatStr(r) \o "%"

DtaaNotes == { DtaaNote(r) : r \in 0..100 }

BothEU(args) ==
    args.payer_country \in eu_member_states /\ args.vendor_country \in eu_member_states

\* the row of the rate table as loaded for the (payer, category) of args
StatutoryRow(args) ==
    LET j == TaxJurisdiction(args.payer_country)
        c == ServiceCategory(args.service_type)
    IN  IF j # None /\ c # None /\ j[1] \in DOMAIN LoadTaxRates
           /\ c[1] \in DOMAIN LoadTaxRates[j[1]]
        THEN LoadTaxRates[j[1]][c[1]]
        ELSE << >>

\* the statutory rate of a tax type of that row
StatutoryRate(args, tax_type) ==
    LET row == StatutoryRow(args)
    IN  row[CHOOSE n \in 1..Len(row) : row[n].tax_type = tax_type].rate.rate

\* the threads whose call has returned
ReturnedThreads == { t \in DOMAIN frames : frames[t].pc = "returned" }

-----------------------------------------------------------------------------
(* C1.  Stated: the treaty of an advice is the same for payer = a,         *)
(* vendor = b as for payer = b, vendor = a.  The lookup uses the ordered   *)
(* pair as the key, so this fails (India/United States has a treaty,       *)
(* United States/India has none).                                          *)

\* C1: two returned advices whose payer and vendor are swapped carry the same treaty
C1_TreatyOrderIndependent ==
    ( /\ kept.outcome = "returned"
      /\ ret.outcome = "returned"
      /\ kept.args[1].payer_country = ret.args[1].vendor_country
      /\ kept.args[1].vendor_country = ret.args[1].payer_country )
    => kept.value[1].dtaa_treaty = ret.value[1].dtaa_treaty

-----------------------------------------------------------------------------
(* C2.  Stated: every intra-EU advice has no Withholding entry and has an  *)
(* intra-EU note among its exemptions.  The note is appended only where a  *)
(* Withholding row is skipped.                                             *)

\* C2 as stated: intra-EU => no Withholding entry and an intra-EU exemption note
C2_IntraEUAlwaysNoted ==
    \A t \in ReturnedThreads :
        BothEU(frames[t].args) =>
            /\ "WITHHOLDING" \notin TaxTypesOf(frames[t].value[1].applicable_taxes)
            /\ IntraEuExemption \in Range(frames[t].value[1].exemptions)

\* C2 as amended: intra-EU => no Withholding entry, and the intra-EU exemption
\* note is present exactly when the table row of (payer, category) has a
\* Withholding entry
C2_IntraEUNotedWhenSkipped ==
    \A t \in ReturnedThreads :
        BothEU(frames[t].args) =>
            /\ "WITHHOLDING" \notin TaxTypesOf(frames[t].value[1].applicable_taxes)
            /\ IntraEuExemption \in Range(frames[t].value[1].exemptions)
                   <=> "WITHHOLDING" \in TaxTypesOf(StatutoryRow(frames[t].args))

\* an intra-EU advice with taxes left, its Withholding row skipped and noted
C2_Witness ==
    \E t \in ReturnedThreads :
        /\ BothEU(frames[t].args)
        /\ "WITHHOLDING" \in TaxTypesOf(StatutoryRow(frames[t].args))
        /\ frames[t].value[1].applicable_taxes # << >>
        /\ frames[t].value[1].exemptions = << IntraEuExemption >>

-----------------------------------------------------------------------------
(* C3.  Stated: an advice, once returned, never changes.  The TaxRate      *)
(* objects of an advice are those of the rate table, and a later call      *)
(* writes its currency into them.                                          *)

\* C3: the advice a caller holds reads as it did when it was returned
C3_AdviceNeverChanges ==
    kept.outcome = "returned" => View(kept.advice[1], tax_rates) = kept.value[1]

-----------------------------------------------------------------------------
(* C4.  Stated: the rule tables are never mutated after construction.      *)

\* C4: the rate table, the treaty table and the forms catalog are as loaded
C4_TablesImmutable ==
    /\ tax_rates = LoadTaxRates
    /\ tax_treaties = LoadTaxTreaties
    /\ compliance_forms = LoadComplianceRequirements

-----------------------------------------------------------------------------
(* C5.  Stated: with two concurrent callers of one (payer, category) in    *)
(* different currencies, each caller's advice carries its own currency on  *)
(* every rate, at the return and whenever it is read later.                *)

\* C5: every rate of a returned advice carries the caller's currency, at the
\* return and now
C5_OwnCurrency ==
    \A t \in ReturnedThreads :
        LET f == frames[t]
            now == View(f.advice[1], tax_rates)
        IN  \A n \in 1..Len(f.value[1].applicable_taxes) :
                /\ f.value[1].applicable_taxes[n].rate.currency = f.args.currency
                /\ now.applicable_taxes[n].rate.currency = f.args.currency

-----------------------------------------------------------------------------
(* C6.  Every returned rate is at most the statutory rate; it differs only *)
(* for Withholding or TDS under a treaty whose rate for the category is    *)
(* strictly lower, and then it is that treaty rate and a DTAA note is      *)
(* added; otherwise the statutory rate is kept and no DTAA note is added.  *)

\* the treaty key of a service type: Royalty -> royalty, Technical and
\* Consulting -> technical_services, otherwise none
TreatyKeyOf(service_type) ==
    IF service_type = "Royalty/License" THEN Some("royalty")
    ELSE IF service_type \in { "Technical Services", "Consulting" }
         THEN Some("technical_services")
    ELSE None

\* the rate the treaty of an advice gives the service type, if any
TreatyRateOf(value, service_type) ==
    IF value.dtaa_treaty = None \/ TreatyKeyOf(service_type) = None THEN None
    ELSE Some(value.dtaa_treaty[1].withholding_rates[TreatyKeyOf(service_type)[1]])

\* an entry of the advice whose rate is the treaty's, strictly below the statutory one
TreatyLowered(args, value, entry) ==
    /\ entry.tax_type \in { "WITHHOLDING", "TDS" }
    /\ TreatyRateOf(value, args.service_type) # None
    /\ TreatyRateOf(value, args.service_type)[1] < StatutoryRate(args, entry.tax_type)
    /\ entry.rate.rate = TreatyRateOf(value, args.service_type)[1]

\* C6: each returned rate is the statutory rate, or a strictly lower treaty
\* rate on Withholding/TDS with its DTAA note; with no lowered rate there is
\* no DTAA note
C6_TreatyRateOnlyLowers ==
    \A t \in ReturnedThreads :
        LET args == frames[t].args
            value == frames[t].value[1]
            taxes == value.applicable_taxes
        IN  /\ TaxTypesOf(taxes) \subseteq TaxTypesOf(StatutoryRow(args))
            /\ \A n \in 1..Len(taxes) :
                   /\ taxes[n].rate.rate <= StatutoryRate(args, taxes[n].tax_type)
                   /\ taxes[n].rate.rate # StatutoryRate(args, taxes[n].tax_type)
                          => /\ TreatyLowered(args, value, taxes[n])
                             /\ DtaaNote(taxes[n].rate.rate) \in Range(value.compliance_notes)
            /\ (\A n \in 1..Len(taxes) : ~TreatyLowered(args, value, taxes[n]))
                   => Range(value.compliance_notes) \cap DtaaNotes = {}

\* a Withholding rate lowered to the treaty rate 0, with its note
C6_Witness ==
    \E t \in ReturnedThreads :
        \E n \in 1..Len(frames[t].value[1].applicable_taxes) :
            /\ frames[t].value[1].applicable_taxes[n].rate.rate = 0
            /\ StatutoryRate(frames[t].args,
                             frames[t].value[1].applicable_taxes[n].tax_type) = 15
            /\ DtaaNote(0) \in Range(frames[t].value[1].compliance_notes)

-----------------------------------------------------------------------------
(* C7.  Stated: the call fails, before any lookup and with no advice,      *)
(* whenever payer country, vendor country or service type is outside its   *)
(* enumeration.  Only the payer country and the service type are           *)
(* converted; the vendor country is used as a plain string.                *)

\* a call that raised did no lookup and made no advice
FailedFast(f) ==
    /\ f.pc = "raised"
    /\ f.advice = None
    /\ f.dtaa_treaty = None
    /\ f.i = 0
    /\ tax_rates = LoadTaxRates

-----------------------------------------------------------------------------
(* C8.  A recognized (payer, category) with no rate-table entry gives a    *)
(* successful call with empty applicable_taxes and filing_requirements.    *)

\* C8: no table entry => the call does not raise, its loop has nothing to do,
\* and the advice has no taxes and no filing requirements
C8_NoEntryIsEmptyAdvice ==
    \A t \in DOMAIN frames :
        ( /\ frames[t].pc # "called"
          /\ frames[t].args.payer_country \in JurisdictionNames
          /\ frames[t].args.service_type \in CategoryNames
          /\ StatutoryRow(frames[t].args) = << >> )
        => /\ frames[t].pc # "raised"
           /\ frames[t].pc = "loop" => LoopDone(frames[t], tax_rates)
           /\ frames[t].pc = "returned" =>
                  /\ frames[t].value[1].applicable_taxes = << >>
                  /\ frames[t].value[1].filing_requirements = << >>

\* India, Printing, PE and TRC set: returned, nothing applicable
C8_Witness ==
    \E t \in ReturnedThreads :
        /\ frames[t].args.payer_country = "India"
        /\ frames[t].args.service_type = "Printing"
        /\ frames[t].args.has_permanent_establishment
        /\ frames[t].args.tax_residency_certificate
        /\ frames[t].value[1].applicable_taxes = << >>
        /\ frames[t].value[1].filing_requirements = << >>

-----------------------------------------------------------------------------
(* C9.  Two calls with identical inputs on one engine return equal         *)
(* advices, whatever calls were made in between.                           *)

\* C9: the advice held from an earlier call and the advice of the latest call
\* are equal as returned when their inputs are equal
C9_Idempotent ==
    ( /\ kept.outcome # "none"
      /\ kept.args = ret.args )
    => /\ kept.outcome = ret.outcome
       /\ kept.value = ret.value

\* the first and the third call had the same inputs and returned taxes
C9_Witness ==
    /\ kept.outcome = "returned"
    /\ ret.outcome = "returned"
    /\ kept.at = 1
    /\ ret.at = 3
    /\ kept.args = ret.args
    /\ ret.value[1].applicable_taxes # << >>

-----------------------------------------------------------------------------
(* C10.  filing_requirements is the concatenation of the catalog's forms   *)
(* of the payer jurisdiction for the tax types of the final                *)
(* applicable_taxes, in its order.                                         *)

RECURSIVE Flatten(_)
Flatten(seqs) == IF seqs = << >> THEN << >> ELSE Head(seqs) \o Flatten(Tail(seqs))

\* the forms the catalog as loaded lists for a payer country and a tax type
CatalogForms(payer_country, tax_type) ==
    LET j == TaxJurisdiction(payer_country)[1]
    IN  IF j \in DOMAIN LoadComplianceRequirements
           /\ tax_type \in DOMAIN LoadComplianceRequirements[j]
        THEN LoadComplianceRequirements[j][tax_type]
        ELSE << >>

\* C10: the filing requirements of an advice are the catalog's forms of its
\* applicable taxes, in their order
C10_FilingRequirementsFollowTaxes ==
    \A t \in ReturnedThreads :
        LET taxes == frames[t].value[1].applicable_taxes
        IN  frames[t].value[1].filing_requirements =
                Flatten([ n \in 1..Len(taxes) |->
                            CatalogForms(frames[t].args.payer_country, taxes[n].tax_type) ])

\* a Withholding rate lowered to 0 by treaty still brings its form S45, after
\* the GST form F5
C10_Witness ==
    \E t \in ReturnedThreads :
        LET value == frames[t].value[1]
        IN  /\ Len(value.applicable_taxes) = 2
            /\ value.applicable_taxes[2].tax_type = "WITHHOLDING"
            /\ value.applicable_taxes[2].rate.rate = 0
            /\ Len(value.filing_requirements) = 2
            /\ value.filing_requirements[1].form_number = "F5"
            /\ value.filing_requirements[2].form_number = "S45"

-----------------------------------------------------------------------------
(* Dicts passed in by callers.                                             *)

\* the dict holding the keys that are given in spec: << >> leaves a key out,
\* << v >> gives it the value v
Dict(spec) == [ k \in { key \in DOMAIN spec : spec[key] # << >> } |-> spec[k][1] ]

\* d.get(key): None when the key is missing
Get(d, key) == IF key \in DOMAIN d THEN d[key] ELSE None

\* d.get(key, default)
GetOr(d, key, default) == IF key \in DOMAIN d THEN d[key] ELSE Some(default)

\* truth value of an Optional bool, str or list
TruthyBool(v) == v # None /\ v[1]

TruthyStr(v) == v # None /\ v[1] # ""

TruthyList(v) == v # None /\ v[1] # << >>

-----------------------------------------------------------------------------
(* datetime, timedelta, calendar.                                          *)

datetime(year, month, day, hour) ==
    [ year |-> year, month |-> month, day |-> day, hour |-> hour ]

IsLeap(year) == (year % 4 = 0 /\ year % 100 # 0) \/ year % 400 = 0

\* calendar.monthrange(year, month)[1]
monthrange(year, month) ==
    IF month = 2 THEN (IF IsLeap(year) THEN 29 ELSE 28)
    ELSE IF month \in { 4, 6, 9, 11 } THEN 30 ELSE 31

\* date + timedelta(days=1)
NextDay(d) ==
    IF d.day < monthrange(d.year, d.month) THEN [ d EXCEPT !.day = @ + 1 ]
    ELSE IF d.month < 12 THEN [ d EXCEPT !.month = @ + 1, !.day = 1 ]
    ELSE [ d EXCEPT !.year = @ + 1, !.month = 1, !.day = 1 ]

\* date - timedelta(days=1)
PrevDay(d) ==
    IF d.day > 1 THEN [ d EXCEPT !.day = @ - 1 ]
    ELSE IF d.month > 1
         THEN [ d EXCEPT !.month = @ - 1, !.day = monthrange(d.year, d.month - 1) ]
    ELSE [ d EXCEPT !.year = @ - 1, !.month = 12, !.day = 31 ]

RECURSIVE PlusDays(_, _)
\* date + timedelta(days=days)
PlusDays(d, days) == IF days = 0 THEN d ELSE PlusDays(NextDay(d), days - 1)

\* a <= b on datetimes
NotAfter(a, b) ==
    \/ a.year < b.year
    \/ a.year = b.year /\ a.month < b.month
    \/ a.year = b.year /\ a.month = b.month /\ a.day < b.day
    \/ a.year = b.year /\ a.month = b.month /\ a.day = b.day /\ a.hour <= b.hour

Pad2(n) == IF n < 10 THEN "0" \o ToString(n) ELSE ToString(n)

\* date.strftime("%Y-%m-%d"), for a year of four digits
strftime(d) == ToString(d.year) \o "-" \o Pad2(d.month) \o "-" \o Pad2(d.day)

\* a Python value that is a datetime, and one that is a str
PyDatetime(d) == [ datetime |-> Some(d), str |-> None ]

PyStr(text) == [ datetime |-> None, str |-> Some(text) ]

-----------------------------------------------------------------------------
(* ComplianceEngine (src/compliance_engine.py).                            *)

ComplianceStatusValues ==
    [ PENDING |-> "Pending", IN_PROGRESS |-> "In Progress", COMPLETED |-> "Completed",
      ESCALATED |-> "Escalated", OVERDUE |-> "Overdue" ]

ComplianceDocument(name, type, required, description, retention_period) ==
    [ name |-> name, type |-> type, required |-> required,
      description |-> description, retention_period |-> retention_period ]

ComplianceAction(form_number, jurisdiction, due_date, required_documents, status, risk_level, assignee, notes) ==
    [ form_number |-> form_number, jurisdiction |-> jurisdiction,
      due_date |-> due_date, required_documents |-> required_documents,
      status |-> status, risk_level |-> risk_level, assignee |-> assignee,
      notes |-> notes ]

\* ComplianceEngine.required_documents
required_documents ==
    [ INDIA |-> ( "15CA" :> <<
          ComplianceDocument("Invoice", "Transaction", TRUE,
                             "Original invoice from vendor", 96),
          ComplianceDocument("Tax Residency Certificate", "Tax", TRUE,
                             "Valid for current financial year", 96),
          ComplianceDocument("Service Agreement", "Contract", TRUE,
                             "Master service agreement or SOW", 96) >> ),
      USA |-> ( "1042-S" :> <<
          ComplianceDocument("W-8BEN/W-8BEN-E", "Tax", TRUE,
                             "Valid for 3 years from signing", 84),
          ComplianceDocument("Invoice", "Transaction", TRUE,
                             "Original invoice with tax breakdown", 84) >> ),
      EU |-> ( "VAT" :> <<
          ComplianceDocument("VAT Invoice", "Transaction", TRUE,
                             "Invoice with VAT registration numbers", 120),
          ComplianceDocument("Proof of Service", "Transaction", TRUE,
                             "Evidence of B2B service provision", 120) >> ) ]

\* ComplianceEngine.filing_deadlines
filing_deadlines ==
    [ GST |-> [ India |-> [ monthly |-> 20, quarterly |-> [ month |-> 4, day |-> 30 ] ],
                Singapore |-> [ quarterly |-> [ month |-> 1, day |-> 31 ] ] ],
      WHT |-> [ India |-> [ monthly |-> 7 ], Singapore |-> [ monthly |-> 15 ] ] ]

\* what a call returned, and the exception it raised instead
ReturnedValue(value) == [ outcome |-> "returned", value |-> Some(value), error |-> "" ]

RaisedError(error) == [ outcome |-> "raised", value |-> None, error |-> error ]

\* variant of _get_quarter_end: the first of the quarter's last month + 30 days
_get_quarter_end_flat(date) ==
    LET quarter == ((date.month - 1) \div 3) + 1
    IN  PyDatetime(PlusDays(datetime(date.year, quarter * 3, 1, 0), 30))

\* lines 304-309, the definition of the name that is bound in the class
_get_quarter_end(date) ==
    LET quarter == (date.month - 1) \div 3
        last_month == (quarter + 1) * 3
        last_day == monthrange(date.year, last_month)
    IN  PyStr(strftime(datetime(date.year, last_month, last_day, 0)))

\* variant of _get_month_end: the first day of the next month
_get_month_end_next_first(date) ==
    IF date.month = 12 THEN datetime(date.year + 1, 1, 1, 0)
    ELSE datetime(date.year, date.month + 1, 1, 0)

\* lines 285-289
_get_month_end(date) ==
    IF date.month = 12 THEN datetime(date.year, 12, 31, 0)
    ELSE PrevDay(datetime(date.year, date.month + 1, 1, 0))

\* variant of _calculate_deadline: always 30 days
_calculate_deadline_30_days(base_date, days) == PyStr(strftime(PlusDays(base_date, 30)))

\* lines 299-302
_calculate_deadline(base_date, days) == PyStr(strftime(PlusDays(base_date, days)))

\* lines 132-155
IndiaActions(tax_advice, transaction_date, quarter_end) ==
    (IF TruthyBool(Get(tax_advice, "foreign_remittance"))
     THEN << ComplianceAction("15CA", "INDIA",
                              PyDatetime(PlusDays(transaction_date, 7)),
                              required_documents.INDIA["15CA"],
                              "PENDING", "Medium", "Tax Team",
                              "Required before foreign remittance") >>
     ELSE << >>)
    \o
    (IF TruthyBool(Get(tax_advice, "tds_applicable"))
     THEN << ComplianceAction("26Q", "INDIA", quarter_end, << >>,
                              "PENDING", "High", "Tax Team",
                              "Quarterly TDS return") >>
     ELSE << >>)

\* lines 157-168
UsaActions(tax_advice, transaction_date) ==
    IF TruthyBool(Get(tax_advice, "withholding_applicable"))
    THEN << ComplianceAction("1042-S", "USA",
                             PyDatetime(datetime(transaction_date.year + 1, 3, 15, 0)),
                             required_documents.USA["1042-S"],
                             "PENDING", "High", "Tax Team",
                             "Annual withholding tax return") >>
    ELSE << >>

\* lines 170-180
EuActions(month_end) ==
    << ComplianceAction("VAT Return", "EU", PyDatetime(PlusDays(month_end, 20)),
                        required_documents.EU["VAT"],
                        "PENDING", "Medium", "Tax Team", "Monthly VAT return") >>

\* ComplianceEngine.generate_compliance_checklist, lines 119-182
generate_compliance_checklist(tax_advice, transaction_date) ==
    LET jurisdiction == Get(tax_advice, "jurisdiction")
    IN  IF ~TruthyStr(jurisdiction) THEN << >>
        ELSE LET quarter_end == _get_quarter_end(transaction_date)
                 month_end == _get_month_end(transaction_date)
             IN  IF jurisdiction[1] = "INDIA"
                 THEN IndiaActions(tax_advice, transaction_date, quarter_end)
                 ELSE IF jurisdiction[1] = "USA"
                 THEN UsaActions(tax_advice, transaction_date)
                 ELSE IF jurisdiction[1] \in { "EU_FR", "EU_DE" }
                 THEN EuActions(month_end)
                 ELSE << >>

ChecklistItem(type, description, deadline, priority, requirements) ==
    [ type |-> type, description |-> description, deadline |-> deadline,
      priority |-> priority, requirements |-> requirements ]

\* lines 191-258, once country, amount and date are read
ChecklistItems(country, amount, date) ==
    (IF country = "India" /\ amount > 20000
     THEN << ChecklistItem("Registration", "GST Registration Required",
                           _calculate_deadline(date, 30), "High",
                           << "Business PAN", "Proof of business address",
                              "Bank account details" >>) >>
     ELSE << >>)
    \o
    (IF country = "India"
     THEN << ChecklistItem("Filing", "Monthly GST Return (GSTR-1)",
                           _calculate_deadline(date, filing_deadlines.GST.India.monthly),
                           "High",
                           << "Invoice details", "Tax payment challan",
                              "E-way bills if applicable" >>),
             ChecklistItem("Filing", "TDS Return",
                           _calculate_deadline(date, filing_deadlines.WHT.India.monthly),
                           "Medium",
                           << "Form 26Q", "TDS certificates", "Vendor PAN details" >>) >>
     ELSE IF country = "Singapore"
     THEN << ChecklistItem("Filing", "GST F5 Return", _get_quarter_end(date), "High",
                           << "Sales listing", "Purchase listing",
                              "Input tax claims" >>) >>
     ELSE << >>)
    \o
    << ChecklistItem("Documentation", "Supporting Documents",
                     _calculate_deadline(date, 7), "Medium",
                     << "Original invoices", "Payment proof",
                        "Contracts or agreements" >>) >>

\* ComplianceEngine.generate_checklist, lines 184-260; now is datetime.now()
generate_checklist(tax_data, now) ==
    IF "country" \notin DOMAIN tax_data THEN RaisedError("KeyError")
    ELSE IF "amount" \notin DOMAIN tax_data THEN RaisedError("KeyError")
    ELSE LET country == tax_data["country"]
             amount == tax_data["amount"]
             date == GetOr(tax_data, "date", now)
         IN  IF country = Some("India") /\ amount = None THEN RaisedError("TypeError")
             ELSE IF date = None THEN RaisedError("AttributeError")
             ELSE ReturnedValue(ChecklistItems(
                      IF country = None THEN "" ELSE country[1],
                      IF amount = None THEN 0 ELSE amount[1], date[1]))

\* variant of validate_requirements: the filing history is not looked at
validate_requirements_without_history(requirements) ==
    LET missing ==
            (IF ~TruthyBool(Get(requirements, "tax_registration"))
             THEN << "tax_registration" >> ELSE << >>)
            \o (IF ~TruthyStr(Get(requirements, "valid_tax_id"))
                THEN << "valid_tax_id" >> ELSE << >>)
    IN  [ is_compliant |-> Len(missing) = 0, missing_requirements |-> missing ]

\* ComplianceEngine.validate_requirements, lines 266-278
validate_requirements(requirements) ==
    LET missing ==
            (IF ~TruthyBool(Get(requirements, "tax_registration"))
             THEN << "tax_registration" >> ELSE << >>)
            \o (IF ~TruthyStr(Get(requirements, "valid_tax_id"))
                THEN << "valid_tax_id" >> ELSE << >>)
            \o (IF ~TruthyList(Get(requirements, "filing_history"))
                THEN << "filing_history" >> ELSE << >>)
    IN  [ is_compliant |-> Len(missing) = 0, missing_requirements |-> missing ]

-----------------------------------------------------------------------------
(* ComplianceValidator (src/compliance_validator.py).                      *)

RiskLevelValues ==
    [ LOW |-> "Low", MEDIUM |-> "Medium", HIGH |-> "High", CRITICAL |-> "Critical" ]

ValidationIssue(code, description, risk_level, recommendation, requires_escalation) ==
    [ code |-> code, description |-> description, risk_level |-> risk_level,
      recommendation |-> recommendation, requires_escalation |-> requires_escalation ]

ValidationResult(valid, issues, timestamp) ==
    [ valid |-> valid, issues |-> issues, timestamp |-> timestamp,
      validator_version |-> "1.0.0" ]

\* ComplianceValidator.pe_thresholds
pe_thresholds ==
    [ INDIA |-> [ days |-> 90, amount |-> 500000 ],
      EU |-> [ days |-> 183, amount |-> 100000 ] ]

\* a check of the validator: the issues it returned, or the exception it raised
Issues(issues) == [ raised |-> FALSE, issues |-> issues ]

CheckRaised == [ raised |-> TRUE, issues |-> << >> ]

PE001(service_days, days) ==
    ValidationIssue("PE001",
        "Service duration (" \o ToString(service_days) \o " days) exceeds PE threshold ("
            \o ToString(days) \o " days)",
        "HIGH", "Review PE implications and consider local entity registration", TRUE)

PE002 ==
    ValidationIssue("PE002", "Annual revenue exceeds PE threshold",
        "HIGH", "Review PE implications and consider local entity registration", TRUE)

\* variant of ExceedsThreshold: at the threshold counts as over it
ReachesThreshold(value, threshold) == value >= threshold

\* lines 91 and 101: value > threshold
ExceedsThreshold(value, threshold) == value > threshold

\* ComplianceValidator._validate_pe_conditions, lines 78-110
_validate_pe_conditions(tax_data) ==
    LET jurisdiction == Get(tax_data, "jurisdiction")
    IN  IF ~TruthyStr(jurisdiction) THEN Issues(<< >>)
        ELSE IF jurisdiction[1] \notin DOMAIN pe_thresholds THEN Issues(<< >>)
        ELSE LET pe_threshold == pe_thresholds[jurisdiction[1]]
                 service_days == GetOr(tax_data, "service_days", 0)
                 annual_revenue == GetOr(tax_data, "annual_revenue", 0)
             IN  IF service_days = None THEN CheckRaised
                 ELSE IF annual_revenue = None THEN CheckRaised
                 ELSE Issues(
                     (IF ExceedsThreshold(service_days[1], pe_threshold.days)
                      THEN << PE001(service_days[1], pe_threshold.days) >> ELSE << >>)
                     \o
                     (IF ExceedsThreshold(annual_revenue[1], pe_threshold.amount)
                      THEN << PE002 >> ELSE << >>))

\* ComplianceValidator._is_service_dtaa_eligible, lines 197-206
eligible_services ==
    { "Technical Services", "Professional Services", "Royalty", "Interest", "Dividend" }

_is_service_dtaa_eligible(service_type) ==
    service_type # None /\ service_type[1] \in eligible_services

DTAA001 ==
    ValidationIssue("DTAA001",
        "DTAA benefits applied without valid Tax Residency Certificate",
        "HIGH", "Obtain valid TRC before applying DTAA benefits", TRUE)

DTAA002 ==
    ValidationIssue("DTAA002", "Service type may not qualify for DTAA benefits",
        "MEDIUM", "Review service classification and DTAA article applicability", TRUE)

\* variant of _validate_dtaa_benefits: the service type is looked at only when
\* the TRC is on file
_validate_dtaa_benefits_trc_first(tax_data) ==
    IF TruthyBool(Get(tax_data, "dtaa_applied"))
    THEN Issues(IF ~TruthyBool(Get(tax_data, "trc_available")) THEN << DTAA001 >>
                ELSE IF ~_is_service_dtaa_eligible(Get(tax_data, "service_type"))
                THEN << DTAA002 >> ELSE << >>)
    ELSE Issues(<< >>)

\* ComplianceValidator._validate_dtaa_benefits, lines 112-137
_validate_dtaa_benefits(tax_data) ==
    IF TruthyBool(Get(tax_data, "dtaa_applied"))
    THEN Issues(
            (IF ~TruthyBool(Get(tax_data, "trc_available"))
             THEN << DTAA001 >> ELSE << >>)
            \o
            (IF ~_is_service_dtaa_eligible(Get(tax_data, "service_type"))
             THEN << DTAA002 >> ELSE << >>))
    ELSE Issues(<< >>)

RATE001 ==
    ValidationIssue("RATE001", "Applied rate is lower than statutory rate",
        "MEDIUM", "Verify rate reduction justification and documentation", FALSE)

RATE002 ==
    ValidationIssue("RATE002", "Special rate applied without supporting documentation",
        "HIGH", "Obtain and maintain documentation for special rate", TRUE)

\* ComplianceValidator._validate_tax_rates, lines 139-168
_validate_tax_rates(tax_data) ==
    LET jurisdiction == Get(tax_data, "jurisdiction")
    IN  IF ~TruthyStr(jurisdiction) THEN Issues(<< >>)
        ELSE LET applied_rate == Get(tax_data, "applied_rate")
                 statutory_rate == GetOr(tax_data, "statutory_rate", 0)
             IN  \* None < number raises TypeError
                 IF applied_rate = None \/ statutory_rate = None THEN CheckRaised
                 ELSE Issues(
                     (IF applied_rate[1] < statutory_rate[1]
                      THEN << RATE001 >> ELSE << >>)
                     \o
                     (IF /\ TruthyBool(Get(tax_data, "special_rate_applied"))
                         /\ ~TruthyBool(Get(tax_data, "special_rate_documentation"))
                      THEN << RATE002 >> ELSE << >>))

\* ComplianceValidator._is_valid_rate_date, lines 208-217; today is datetime.now()
_is_valid_rate_date(rate_date, today) ==
    /\ rate_date # None
    /\ rate_date[1].year = today.year
    /\ rate_date[1].month = today.month
    /\ rate_date[1].day \in { 1, rate_date[1].day }

CURR001 ==
    ValidationIssue("CURR001", "Non-official exchange rate used for conversion",
        "MEDIUM", "Use official exchange rates as per regulatory requirements", FALSE)

CURR002 ==
    ValidationIssue("CURR002", "Exchange rate date does not comply with regulations",
        "MEDIUM", "Use exchange rate as per prescribed date", FALSE)

\* ComplianceValidator._validate_currency_conversion, lines 170-195
_validate_currency_conversion(tax_data, today) ==
    IF Get(tax_data, "currency") # Get(tax_data, "local_currency")
    THEN Issues(
            (IF ~TruthyBool(Get(tax_data, "official_rate_used"))
             THEN << CURR001 >> ELSE << >>)
            \o
            (IF ~_is_valid_rate_date(Get(tax_data, "rate_date"), today)
             THEN << CURR002 >> ELSE << >>))
    ELSE Issues(<< >>)

\* ComplianceValidator.validate_filing, lines 52-76; now is datetime.now().
\* The checks run in the order PE, DTAA, tax rate, currency, and an exception
\* of one of them leaves validate_filing at once.
validate_filing(tax_data, now) ==
    LET pe == _validate_pe_conditions(tax_data)
    IN  IF pe.raised THEN RaisedError("TypeError")
        ELSE LET dtaa == _validate_dtaa_benefits(tax_data)
             IN  IF dtaa.raised THEN RaisedError("TypeError")
                 ELSE LET rate == _validate_tax_rates(tax_data)
                      IN  IF rate.raised THEN RaisedError("TypeError")
                          ELSE LET curr == _validate_currency_conversion(tax_data, now)
                               IN  IF curr.raised THEN RaisedError("TypeError")
                                   ELSE LET issues == pe.issues \o dtaa.issues
                                                      \o rate.issues \o curr.issues
                                        IN  ReturnedValue(ValidationResult(
                                                Len(issues) = 0, issues, now))

-----------------------------------------------------------------------------
(* ComplianceEngine.calculate_due_date and FormGenerator                   *)
(* (src/compliance_engine.py).                                             *)

\* lines 262-264: the table entry of a known filing type is a dict, and
\* datetime + dict raises TypeError; an unknown type falls back to 30 days
calculate_due_date(filing_type, transaction_date) ==
    IF filing_type \in DOMAIN filing_deadlines
    THEN RaisedError("TypeError")
    ELSE ReturnedValue(PlusDays(transaction_date, 30))

\* lines 394-402
_get_purpose_code(service_type) ==
    IF service_type = Some("Technical Services") THEN "S0304"
    ELSE IF service_type = Some("Professional Services") THEN "S0304"
    ELSE IF service_type = Some("Royalty") THEN "S0306"
    ELSE IF service_type = Some("Software") THEN "S0302"
    ELSE "S0304"

\* lines 404-412
_get_income_code(service_type) ==
    IF service_type = Some("Technical Services") THEN "50"
    ELSE IF service_type = Some("Professional Services") THEN "50"
    ELSE IF service_type = Some("Royalty") THEN "12"
    ELSE IF service_type = Some("Software") THEN "12"
    ELSE "50"

\* variant of Form15CAPart: part "B" from 500,000 on
Form15CAPartFrom(amount_in_inr) == IF amount_in_inr < 500000 THEN "A" ELSE "B"

\* line 316
Form15CAPart(amount_in_inr) == IF amount_in_inr <= 500000 THEN "A" ELSE "B"

\* lines 335-339
Form15CACertificate(amount_in_inr) ==
    IF amount_in_inr > 500000
    THEN Some([ ca_name |-> "", ca_registration |-> "", certificate_date |-> "" ])
    ELSE None

\* lines 312-339; an amount_in_inr of None cannot be compared with 500000
generate_form_15ca(tax_data) ==
    LET amount_in_inr == GetOr(tax_data, "amount_in_inr", 0)
    IN  IF amount_in_inr = None THEN RaisedError("TypeError")
        ELSE ReturnedValue(
               [ form_type |-> "15CA",
                 part |-> Form15CAPart(amount_in_inr[1]),
                 remitter_details |->
                     [ name |-> Get(tax_data, "payer_name"),
                       pan |-> Get(tax_data, "payer_pan"),
                       tan |-> Get(tax_data, "payer_tan"),
                       address |-> Get(tax_data, "payer_address") ],
                 remittance_details |->
                     [ amount |-> Get(tax_data, "amount"),
                       currency |-> Get(tax_data, "currency"),
                       purpose_code |-> _get_purpose_code(Get(tax_data, "service_type")),
                       nature_of_remittance |-> Get(tax_data, "service_type") ],
                 beneficiary_details |->
                     [ name |-> Get(tax_data, "vendor_name"),
                       address |-> Get(tax_data, "vendor_address"),
                       country |-> Get(tax_data, "vendor_country") ],
                 certificate_details |-> Form15CACertificate(amount_in_inr[1]) ])

\* lines 341-363
generate_1042s(tax_data, now) ==
    ReturnedValue(
      [ form_type |-> "1042-S",
        tax_year |-> now.year,
        withholding_agent |->
            [ name |-> Get(tax_data, "payer_name"),
              ein |-> Get(tax_data, "payer_ein"),
              address |-> Get(tax_data, "payer_address") ],
        recipient |->
            [ name |-> Get(tax_data, "vendor_name"),
              address |-> Get(tax_data, "vendor_address"),
              country |-> Get(tax_data, "vendor_country"),
              tax_id |-> Get(tax_data, "vendor_tax_id") ],
        payment_details |->
            [ income_type |-> _get_income_code(Get(tax_data, "service_type")),
              gross_amount |-> Get(tax_data, "amount"),
              withholding_rate |-> GetOr(tax_data, "withholding_rate", 30),
              tax_withheld |-> Get(tax_data, "tax_withheld") ] ])

\* lines 387-390: the list always has two entries, None where the flag is
\* not set
VatInvoiceNotes(tax_data) ==
    << IF TruthyBool(Get(tax_data, "reverse_charge"))
       THEN Some("Reverse Charge Applies") ELSE None,
       IF TruthyBool(Get(tax_data, "intra_eu"))
       THEN Some("Intra-EU Supply") ELSE None >>

\* lines 365-392
generate_vat_invoice(tax_data) ==
    ReturnedValue(
      [ document_type |-> "VAT Invoice",
        invoice_number |-> Get(tax_data, "invoice_number"),
        date |-> Get(tax_data, "invoice_date"),
        supplier |->
            [ name |-> Get(tax_data, "vendor_name"),
              vat_number |-> Get(tax_data, "vendor_vat"),
              address |-> Get(tax_data, "vendor_address") ],
        customer |->
            [ name |-> Get(tax_data, "payer_name"),
              vat_number |-> Get(tax_data, "payer_vat"),
              address |-> Get(tax_data, "payer_address") ],
        service_details |->
            [ description |-> Get(tax_data, "service_type"),
              amount_excl_vat |-> Get(tax_data, "amount"),
              vat_rate |-> Get(tax_data, "vat_rate"),
              vat_amount |-> Get(tax_data, "vat_amount"),
              total_amount |-> Get(tax_data, "total_amount") ],
        notes |-> VatInvoiceNotes(tax_data) ])

-----------------------------------------------------------------------------
(* AutomationOrchestrator (src/cfo_automation.py).                         *)

\* datetime.isoformat, to the hour
isoformat(d) == strftime(d) \o "T" \o Pad2(d.hour) \o ":00:00"

\* lines 95-104: .get on the payer and on the vendor, {} when the key is
\* missing; a payer or vendor of None has no .get
_extract_entities(transaction_data) ==
    LET payer == GetOr(transaction_data, "payer", << >>)
        vendor == GetOr(transaction_data, "vendor", << >>)
    IN  IF payer = None \/ vendor = None
        THEN RaisedError("'NoneType' object has no attribute 'get'")
        ELSE ReturnedValue(
               [ payer_name |-> Get(payer[1], "name"),
                 payer_country |-> Get(payer[1], "country"),
                 payer_tax_id |-> Get(payer[1], "tax_id"),
                 vendor_name |-> Get(vendor[1], "name"),
                 vendor_country |-> Get(vendor[1], "country"),
                 vendor_tax_id |-> Get(vendor[1], "tax_id"),
                 has_pe |-> GetOr(vendor[1], "has_pe", FALSE),
                 has_trc |-> GetOr(vendor[1], "has_trc", FALSE) ])

\* the public methods of ServiceClassifier (src/service_classifier.py)
ServiceClassifierMethods == { "classify" }

\* line 26: the attribute lookup on the classifier
classify_service(description) ==
    IF "classify_service" \in ServiceClassifierMethods
    THEN ReturnedValue(description)
    ELSE RaisedError("'ServiceClassifier' object has no attribute 'classify_service'")

\* lines 83-91
ErrorResponse(transaction_data, error, now) ==
    ReturnedValue([ transaction_id |-> Get(transaction_data, "id"),
                    status |-> "error",
                    error |-> error,
                    timestamp |-> isoformat(now) ])

\* lines 21-91.  The statements after line 26 run only with a value of
\* classify_service, which the classifier does not provide; the except
\* branch answers, and _notify_compliance_officer does nothing.
AutomationOrchestrator_process_transaction(transaction_data, now) ==
    LET entities == _extract_entities(transaction_data)
        service_type == classify_service(GetOr(transaction_data, "description", ""))
    IN  IF entities.outcome = "raised"
        THEN ErrorResponse(transaction_data, entities.error, now)
        ELSE ErrorResponse(transaction_data, service_type.error, now)

-----------------------------------------------------------------------------
(* Calls on the checklist generator and on the validator.                  *)

Years == { 2023, 2024 }

Hours == { 0, 13 }

\* transaction dates: the first, the middle and the last days of every month
TransactionDates ==
    { t \in { datetime(y, m, d, h) : y \in Years, m \in 1..12,
                                     d \in { 1, 15, 28, 29, 30, 31 }, h \in Hours } :
        t.day <= monthrange(t.year, t.month) }

\* datetime.now() at the time of a call
NowInputs == { datetime(2024, 2, 29, 13), datetime(2024, 12, 31, 0) }

TaxAdviceInputs ==
    { Dict(d) : d \in
        [ jurisdiction : { << >>, << Some("") >>, << Some("INDIA") >>, << Some("USA") >>,
                           << Some("EU_FR") >>, << Some("EU_DE") >>,
                           << Some("SINGAPORE") >>, << Some("India") >> },
          foreign_remittance : { << >>, << Some(TRUE) >>, << Some(FALSE) >> },
          tds_applicable : { << >>, << Some(TRUE) >> },
          withholding_applicable : { << >>, << Some(TRUE) >> } ] }

TaxDataInputs ==
    { Dict(d) : d \in
        [ country : { << >>, << Some("India") >>, << Some("Singapore") >>,
                      << Some("France") >> },
          amount : { << >>, << None >>, << Some(20000) >>, << Some(20001) >>,
                     << Some(25000) >>, << Some(100000) >> },
          date : { << >> } \cup { << Some(t) >> : t \in TransactionDates } ] }

RequirementsInputs ==
    { Dict(d) : d \in
        [ tax_registration : { << >>, << Some(TRUE) >>, << Some(FALSE) >> },
          valid_tax_id : { << >>, << Some("") >>, << Some("T12345678") >> },
          filing_history : { << >>, << Some(<< >>) >>,
                             << Some(<< "2023Q1", "2023Q2" >>) >> } ] }

Request(op, args) == [ op |-> op, args |-> args ]

ComplianceChecklistRequests ==
    { Request("generate_compliance_checklist", << a, t >>) :
        a \in TaxAdviceInputs, t \in TransactionDates }

ChecklistRequests ==
    { Request("generate_checklist", << d, now >>) : d \in TaxDataInputs, now \in NowInputs }

RequirementsRequests ==
    { Request("validate_requirements", << r >>) : r \in RequirementsInputs }

\* a fresh ComplianceEngine and one call on it
\* the filing types of the deadline table and two it does not have
FilingTypeInputs == { "GST", "WHT", "VAT", "TDS" }

DueDateRequests ==
    { Request("calculate_due_date", << f, t >>) : f \in FilingTypeInputs, t \in TransactionDates }

InitCompliance ==
    /\ EngineInit
    /\ ret = NoCall
    /\ kept = NoCall
    /\ calls = 0
    /\ frames = << >>
    /\ response = NoResponse
    /\ \/ request \in ComplianceChecklistRequests
       \/ request \in ChecklistRequests
       \/ request \in RequirementsRequests
       \/ request \in DueDateRequests

GenerateComplianceChecklist ==
    /\ request.op = "generate_compliance_checklist"
    /\ response = NoResponse
    /\ response' = ReturnedValue(
                       generate_compliance_checklist(request.args[1], request.args[2]))
    /\ UNCHANGED << engine, ret, kept, calls, frames, request >>

GenerateChecklist ==
    /\ request.op = "generate_checklist"
    /\ response = NoResponse
    /\ response' = generate_checklist(request.args[1], request.args[2])
    /\ UNCHANGED << engine, ret, kept, calls, frames, request >>

ValidateRequirements ==
    /\ request.op = "validate_requirements"
    /\ response = NoResponse
    /\ response' = ReturnedValue(validate_requirements(request.args[1]))
    /\ UNCHANGED << engine, ret, kept, calls, frames, request >>

CalculateDueDate ==
    /\ request.op = "calculate_due_date"
    /\ response = NoResponse
    /\ response' = calculate_due_date(request.args[1], request.args[2])
    /\ UNCHANGED << engine, ret, kept, calls, frames, request >>

NextCompliance ==
    \/ GenerateComplianceChecklist
    \/ GenerateChecklist
    \/ ValidateRequirements
    \/ CalculateDueDate

SpecCompliance == InitCompliance /\ [][NextCompliance]_vars

\* one call on an AutomationOrchestrator
PartyInputs ==
    { << >>, << None >> }
    \cup { << Some(Dict([ country |-> << Some(c) >>, has_pe |-> pe, has_trc |-> trc ])) >> :
             c \in { "India", "United States", "France" },
             pe \in { << >>, << Some(TRUE) >> }, trc \in { << >>, << Some(TRUE) >> } }

TransactionInputs ==
    { Dict(d) : d \in
        [ id : { << >>, << Some("T1") >> },
          description : { << >>, << Some("Technical consulting services") >>,
                          << Some("Software license royalty") >> },
          amount : { << >>, << Some(10000) >> },
          payer : PartyInputs,
          vendor : PartyInputs ] }

TransactionRequests ==
    { Request("process_transaction", << d, now >>) : d \in TransactionInputs, now \in NowInputs }

InitOrchestrator ==
    /\ EngineInit
    /\ ret = NoCall
    /\ kept = NoCall
    /\ calls = 0
    /\ frames = << >>
    /\ response = NoResponse
    /\ request \in TransactionRequests

ProcessTransaction ==
    /\ request.op = "process_transaction"
    /\ response = NoResponse
    /\ response' = AutomationOrchestrator_process_transaction(request.args[1], request.args[2])
    /\ UNCHANGED << engine, ret, kept, calls, frames, request >>

NextOrchestrator == ProcessTransaction

SpecOrchestrator == InitOrchestrator /\ [][NextOrchestrator]_vars

\* one call on a FormGenerator
FormDataInputs ==
    { Dict(d) : d \in
        [ amount_in_inr : { << >>, << None >>, << Some(0) >>, << Some(500000) >>,
                            << Some(500001) >>, << Some(1000000) >> },
          service_type : { << >>, << Some("Technical Services") >>, << Some("Royalty") >>,
                           << Some("Software") >>, << Some("Consulting") >> },
          amount : { << >>, << Some(10000) >> },
          payer_name : { << >>, << Some("Acme") >> },
          reverse_charge : { << >>, << Some(TRUE) >>, << Some(FALSE) >> },
          intra_eu : { << >>, << Some(TRUE) >>, << Some(FALSE) >> } ] }

FormRequests ==
    { Request(op, << d, now >>) :
        op \in { "generate_form_15ca", "generate_1042s", "generate_vat_invoice" },
        d \in FormDataInputs, now \in NowInputs }

InitForms ==
    /\ EngineInit
    /\ ret = NoCall
    /\ kept = NoCall
    /\ calls = 0
    /\ frames = << >>
    /\ response = NoResponse
    /\ request \in FormRequests

GenerateForm15CA ==
    /\ request.op = "generate_form_15ca"
    /\ response = NoResponse
    /\ response' = generate_form_15ca(request.args[1])
    /\ UNCHANGED << engine, ret, kept, calls, frames, request >>

Generate1042S ==
    /\ request.op = "generate_1042s"
    /\ response = NoResponse
    /\ response' = generate_1042s(request.args[1], request.args[2])
    /\ UNCHANGED << engine, ret, kept, calls, frames, request >>

GenerateVatInvoice ==
    /\ request.op = "generate_vat_invoice"
    /\ response = NoResponse
    /\ response' = generate_vat_invoice(request.args[1])
    /\ UNCHANGED << engine, ret, kept, calls, frames, request >>

NextForms ==
    \/ GenerateForm15CA
    \/ Generate1042S
    \/ GenerateVatInvoice

SpecForms == InitForms /\ [][NextForms]_vars

\* AutomationOrchestrator.process_transaction, steps 2 and 3: the advice of the
\* resolver goes to the checklist generator as tax_advice.to_dict()
ToDict(value) == [ k \in DOMAIN value |-> Some(value[k]) ]

PipelineArgs ==
    { Args(p, v, s, 10000, "USD", FALSE, FALSE) :
        p \in { "India", "France", "United States", "Singapore" },
        v \in { "United States", "France" },
        s \in { "Technical Services", "Printing" } }

InitPipeline ==
    /\ EngineInit
    /\ ret = NoCall
    /\ kept = NoCall
    /\ calls = 0
    /\ request = NoRequest
    /\ response = NoResponse
    /\ frames \in { << CalledFrame(a) >> : a \in PipelineArgs }

StepChecklist(t) ==
    /\ frames[t].pc = "returned"
    /\ request = NoRequest
    /\ \E now \in TransactionDates :
        LET tax_advice == ToDict(View(frames[t].advice[1], tax_rates))
        IN  /\ request' = Request("generate_compliance_checklist", << tax_advice, now >>)
            /\ response' = ReturnedValue(generate_compliance_checklist(tax_advice, now))
    /\ UNCHANGED << engine, ret, kept, calls, frames >>

NextPipeline ==
    \/ \E t \in DOMAIN frames : StepEnter(t)
    \/ \E t \in DOMAIN frames : StepLoop(t)
    \/ \E t \in DOMAIN frames : StepReturn(t)
    \/ \E t \in DOMAIN frames : StepChecklist(t)

SpecPipeline == InitPipeline /\ [][NextPipeline]_vars

-----------------------------------------------------------------------------
(* What the properties of the checklist generator speak of.                *)

\* the response to the call named op, when there is one
Answered(op) == request.op = op /\ response.outcome # "none"

FormNumbers(actions) == { actions[n].form_number : n \in 1..Len(actions) }

\* the last calendar day of a month, and of the quarter a date lies in
LastDayOfMonth(year, month) ==
    datetime(year, month, IF month = 2 THEN (IF IsLeap(year) THEN 29 ELSE 28)
                          ELSE IF month \in { 4, 6, 9, 11 } THEN 30 ELSE 31, 0)

LastDayOfQuarter(date) ==
    IF date.month <= 3 THEN datetime(date.year, 3, 31, 0)
    ELSE IF date.month <= 6 THEN datetime(date.year, 6, 30, 0)
    ELSE IF date.month <= 9 THEN datetime(date.year, 9, 30, 0)
    ELSE datetime(date.year, 12, 31, 0)

\* the value v is the moment t: as a datetime, or for a midnight as the text
\* of its date
Denotes(v, t) == v = PyDatetime(t) \/ (t.hour = 0 /\ v = PyStr(strftime(t)))

\* every day a date text of the years in use can name
CalendarDays ==
    { d \in { datetime(y, m, n, 0) : y \in Years \cup { 2025 }, m \in 1..12, n \in 1..31 } :
        d.day <= monthrange(d.year, d.month) }

\* the value v, a datetime or the text of a date, is not before t
DueNotBefore(v, t) ==
    IF v.datetime # None THEN NotAfter(t, v.datetime[1])
    ELSE \E d \in CalendarDays : strftime(d) = v.str[1] /\ NotAfter(t, d)

-----------------------------------------------------------------------------
(* C11.  An advice of the resolver, handed to the checklist generator as   *)
(* to_dict() gives it, yields the Form 26Q action (India, TDS applicable)  *)
(* and the VAT Return action (France).                                     *)

\* C11: whenever the checklist has been generated from a returned advice,
\* an India advice with a TDS entry has a 26Q action and a France advice has
\* a VAT Return action
C11_ResolverFeedsChecklist ==
    \A t \in DOMAIN frames :
        (frames[t].pc = "returned" /\ Answered("generate_compliance_checklist"))
        => /\ ( /\ frames[t].args.payer_country = "India"
                /\ "TDS" \in TaxTypesOf(frames[t].value[1].applicable_taxes) )
              => "26Q" \in FormNumbers(response.value[1])
           /\ frames[t].args.payer_country = "France"
              => "VAT Return" \in FormNumbers(response.value[1])

-----------------------------------------------------------------------------
(* C12.  The quarter-end due date returned to callers is the last calendar *)
(* day of the last month of the quarter of the transaction date.           *)

\* C12: the 26Q action of generate_compliance_checklist (INDIA, TDS
\* applicable) and the GST F5 item of generate_checklist (Singapore) are due
\* on the last day of the quarter of the date they are computed from
C12_QuarterEndIsLastDay ==
    /\ ( /\ Answered("generate_compliance_checklist")
         /\ Get(request.args[1], "jurisdiction") = Some("INDIA")
         /\ TruthyBool(Get(request.args[1], "tds_applicable")) )
       => \E n \in 1..Len(response.value[1]) :
            /\ response.value[1][n].form_number = "26Q"
            /\ Denotes(response.value[1][n].due_date, LastDayOfQuarter(request.args[2]))
    /\ ( /\ Answered("generate_checklist")
         /\ response.outcome = "returned"
         /\ Get(request.args[1], "country") = Some("Singapore") )
       => \E n \in 1..Len(response.value[1]) :
            /\ response.value[1][n].description = "GST F5 Return"
            /\ Denotes(response.value[1][n].deadline,
                       LastDayOfQuarter(GetOr(request.args[1], "date", request.args[2])[1]))

\* a transaction on 29 February 2024: the 26Q action is due 2024-03-31
C12_Witness ==
    /\ Answered("generate_compliance_checklist")
    /\ request.args[2] = datetime(2024, 2, 29, 13)
    /\ \E n \in 1..Len(response.value[1]) :
        /\ response.value[1][n].form_number = "26Q"
        /\ response.value[1][n].due_date = PyStr("2024-03-31")

-----------------------------------------------------------------------------
(* C13.  Every action of generate_compliance_checklist is due on or after  *)
(* the transaction date.                                                   *)

\* C13: no action of the checklist is due before the transaction date
C13_DueNotBeforeTransaction ==
    Answered("generate_compliance_checklist")
    => \A n \in 1..Len(response.value[1]) :
          DueNotBefore(response.value[1][n].due_date, request.args[2])

-----------------------------------------------------------------------------
(* C14.  generate_compliance_checklist emits exactly one Pending action    *)
(* per trigger and nothing else.                                           *)

\* the forms that are due and when, by jurisdiction and flags
TriggeredForms(tax_advice, date) ==
    LET jurisdiction == Get(tax_advice, "jurisdiction")
    IN  IF jurisdiction = Some("INDIA")
        THEN (IF TruthyBool(Get(tax_advice, "foreign_remittance"))
              THEN { << "15CA", PlusDays(date, 7) >> } ELSE { })
             \cup
             (IF TruthyBool(Get(tax_advice, "tds_applicable"))
              THEN { << "26Q", LastDayOfQuarter(date) >> } ELSE { })
        ELSE IF jurisdiction = Some("USA")
        THEN (IF TruthyBool(Get(tax_advice, "withholding_applicable"))
              THEN { << "1042-S", datetime(date.year + 1, 3, 15, 0) >> } ELSE { })
        ELSE IF jurisdiction \in { Some("EU_FR"), Some("EU_DE") }
        THEN { << "VAT Return", PlusDays(LastDayOfMonth(date.year, date.month), 20) >> }
        ELSE { }

\* C14: the actions returned are, one for one, the triggered forms with
\* their due dates, each Pending
C14_OneActionPerTrigger ==
    Answered("generate_compliance_checklist")
    => LET actions == response.value[1]
           due == TriggeredForms(request.args[1], request.args[2])
       IN  /\ Len(actions) = Cardinality(due)
           /\ \A n \in 1..Len(actions) :
                /\ actions[n].status = "PENDING"
                /\ ComplianceStatusValues[actions[n].status] = "Pending"
                /\ \E f \in due : /\ actions[n].form_number = f[1]
                                  /\ Denotes(actions[n].due_date, f[2])
           /\ \A f \in due : \E n \in 1..Len(actions) : actions[n].form_number = f[1]

\* EU_FR on 15 February 2024: one VAT Return, due 20 March 2024
C14_Witness ==
    /\ Answered("generate_compliance_checklist")
    /\ Get(request.args[1], "jurisdiction") = Some("EU_FR")
    /\ request.args[2] = datetime(2024, 2, 15, 13)
    /\ Len(response.value[1]) = 1
    /\ response.value[1][1].form_number = "VAT Return"
    /\ response.value[1][1].due_date = PyDatetime(datetime(2024, 3, 20, 0))

-----------------------------------------------------------------------------
(* C20.  ComplianceEngine.validate_requirements: compliant iff registered, *)
(* tax id non-empty and filing history non-empty; missing_requirements     *)
(* lists exactly the keys whose condition fails.                           *)

\* the keys of a requirements dict whose condition fails
FailingRequirements(requirements) ==
    { key \in { "tax_registration" } : Get(requirements, key) # Some(TRUE) }
    \cup { key \in { "valid_tax_id" } :
             Get(requirements, key) = None \/ Get(requirements, key) = Some("") }
    \cup { key \in { "filing_history" } :
             Get(requirements, key) = None \/ Get(requirements, key) = Some(<< >>) }

\* C20: is_compliant iff no condition fails, and missing_requirements lists
\* the failing keys, each once
C20_CompliantIffAllThree ==
    Answered("validate_requirements")
    => LET result == response.value[1]
           failing == FailingRequirements(request.args[1])
       IN  /\ result.is_compliant <=> failing = { }
           /\ Range(result.missing_requirements) = failing
           /\ Len(result.missing_requirements) = Cardinality(failing)

\* {false, "", []}: not compliant, all three keys missing
C20_Witness ==
    /\ Answered("validate_requirements")
    /\ request.args[1] = [ tax_registration |-> Some(FALSE), valid_tax_id |-> Some(""),
                           filing_history |-> Some(<< >>) ]
    /\ ~response.value[1].is_compliant
    /\ Range(response.value[1].missing_requirements) =
           { "tax_registration", "valid_tax_id", "filing_history" }

-----------------------------------------------------------------------------
(* ComplianceValidator.validate_requirements (src/compliance_validator.py, *)
(* lines 219-269).  A tax id is the sequence of its characters, so that    *)
(* its length and the pattern match are computed on it.                    *)

Digits == { "0", "1", "2", "3", "4", "5", "6", "7", "8", "9" }

UpperCase ==
    { "A", "B", "C", "D", "E", "F", "G", "H", "I", "J", "K", "L", "M",
      "N", "O", "P", "Q", "R", "S", "T", "U", "V", "W", "X", "Y", "Z" }

RECURSIVE Join(_)
\* the str of a sequence of characters
Join(chars) == IF chars = << >> THEN "" ELSE Head(chars) \o Join(Tail(chars))

\* tax_id_formats["India"]["GST"]: the class of characters allowed at each
\* place of ^\d{2}[A-Z]{5}\d{4}[A-Z]{1}[A-Z\d]{1}[Z]{1}[A-Z\d]{1}$
GstFormat ==
    << Digits, Digits,
       UpperCase, UpperCase, UpperCase, UpperCase, UpperCase,
       Digits, Digits, Digits, Digits,
       UpperCase, UpperCase \cup Digits, { "Z" }, UpperCase \cup Digits >>

\* variant of ReMatch: the last place of the pattern is not looked at
ReMatchButLast(format, chars) ==
    /\ Len(chars) = Len(format)
    /\ \A n \in 1..(Len(format) - 1) : chars[n] \in format[n]

\* bool(re.match(pattern, tax_id)) for a pattern of one character class per
\* place, anchored at both ends
ReMatch(format, chars) ==
    /\ Len(chars) = Len(format)
    /\ \A n \in 1..Len(format) : chars[n] \in format[n]

Check(type, status, message) == [ type |-> type, status |-> status, message |-> message ]

\* lines 227-237
RegistrationCheck(data) ==
    IF "tax_registration" \notin DOMAIN data
    THEN [ checks |-> << >>, issues |-> << >>, valid |-> TRUE ]
    ELSE IF TruthyBool(data["tax_registration"])
    THEN [ checks |-> << Check("Tax Registration", "PASS", "Tax registration verified") >>,
           issues |-> << >>, valid |-> TRUE ]
    ELSE [ checks |-> << Check("Tax Registration", "FAIL", "Missing tax registration") >>,
           issues |-> << "Tax registration not found" >>, valid |-> FALSE ]

\* lines 239-254, for a tax id that is a str
TaxIdCheck(data) ==
    IF "valid_tax_id" \notin DOMAIN data
    THEN [ checks |-> << >>, issues |-> << >>, valid |-> TRUE ]
    ELSE LET tax_id == data["valid_tax_id"][1]
         IN  IF Len(tax_id) # 15 THEN [ checks |-> << >>, issues |-> << >>, valid |-> TRUE ]
             ELSE IF ReMatch(GstFormat, tax_id)
             THEN [ checks |-> << Check("Tax ID Format", "PASS",
                                        "Tax ID " \o Join(tax_id) \o " format is valid") >>,
                    issues |-> << >>, valid |-> TRUE ]
             ELSE [ checks |-> << Check("Tax ID Format", "FAIL",
                                        "Invalid tax ID format: " \o Join(tax_id)) >>,
                    issues |-> << "Invalid tax ID format: " \o Join(tax_id) >>,
                    valid |-> FALSE ]

\* lines 256-267, for a filing history that is a list
HistoryCheck(data) ==
    IF "filing_history" \notin DOMAIN data
    THEN [ checks |-> << >>, issues |-> << >>, valid |-> TRUE ]
    ELSE LET history == data["filing_history"][1]
         IN  IF history # << >>
             THEN [ checks |-> << Check("Filing History", "PASS",
                                        "Found " \o ToString(Len(history))
                                            \o " previous filings") >>,
                    issues |-> << >>, valid |-> TRUE ]
             ELSE [ checks |-> << Check("Filing History", "FAIL",
                                        "No filing history found") >>,
                    issues |-> << "No filing history found" >>, valid |-> FALSE ]

\* ComplianceValidator.validate_requirements, lines 219-269.  len(tax_id)
\* raises TypeError for a tax id that is None; a filing history that is None
\* is falsy, and its len is then not evaluated.
ComplianceValidator_validate_requirements(data) ==
    LET registration == RegistrationCheck(data)
    IN  IF "valid_tax_id" \in DOMAIN data /\ data["valid_tax_id"] = None
        THEN RaisedError("TypeError")
        ELSE LET tax_id == TaxIdCheck(data)
                 history == IF Get(data, "filing_history") = None
                            THEN (IF "filing_history" \in DOMAIN data
                                  THEN [ checks |-> << Check("Filing History", "FAIL",
                                                             "No filing history found") >>,
                                         issues |-> << "No filing history found" >>, valid |-> FALSE ]
                                  ELSE [ checks |-> << >>, issues |-> << >>, valid |-> TRUE ])
                            ELSE HistoryCheck(data)
                 issues == registration.issues \o tax_id.issues \o history.issues
             IN  ReturnedValue([ valid |-> registration.valid /\ tax_id.valid /\ history.valid,
                                 checks |-> registration.checks \o tax_id.checks
                                                \o history.checks,
                                 issues |-> issues ])

\* tax ids: empty, of 9 characters, and of 15 characters that match the GST
\* format or miss it at one place
TaxIdInputs ==
    { << >>,
      << "T", "1", "2", "3", "4", "5", "6", "7", "8" >>,
      << "2", "2", "A", "A", "A", "A", "A", "0", "0", "0", "0", "A", "1", "Z", "5" >>,
      << "2", "2", "A", "A", "A", "A", "A", "0", "0", "0", "0", "A", "1", "X", "5" >>,
      << "2", "2", "A", "A", "A", "A", "A", "0", "0", "0", "0", "A", "1", "Z", "-" >>,
      << "2", "2", "a", "A", "A", "A", "A", "0", "0", "0", "0", "A", "1", "Z", "5" >>,
      << "A", "2", "A", "A", "A", "A", "A", "0", "0", "0", "0", "A", "1", "Z", "5" >> }

ValidatorRequirementsInputs ==
    { Dict(d) : d \in
        [ tax_registration : { << >>, << None >>, << Some(TRUE) >>, << Some(FALSE) >> },
          valid_tax_id : { << >>, << None >> } \cup { << Some(t) >> : t \in TaxIdInputs },
          filing_history : { << >>, << None >>, << Some(<< >>) >>,
                             << Some(<< "2023Q1", "2023Q2" >>) >> } ] }

ValidatorRequirementsRequests ==
    { Request("ComplianceValidator.validate_requirements", << d >>) :
        d \in ValidatorRequirementsInputs }

-----------------------------------------------------------------------------
(* Calls on the validator.                                                 *)

\* datetime.now() at the time of a validate_filing call
ValidatorNow == { datetime(2024, 2, 29, 13) }

\* exchange rate dates: of this month and of an earlier one
RateDates == { datetime(2024, 2, 1, 0), datetime(2023, 12, 31, 0) }

\* special rate fields: documentation is given only with a special rate
SpecialRateInputs ==
    { << << >>, << >> >>, << << Some(TRUE) >>, << >> >>,
      << << Some(TRUE) >>, << Some(TRUE) >> >> }

\* currency fields <<currency, local_currency, official_rate_used, rate_date>>:
\* none of them, or two different currencies with or without the other two
ConversionInputs ==
    { << << >>, << >>, << >>, << >> >>,
      << << Some("USD") >>, << Some("INR") >>, << >>, << >> >>,
      << << Some("USD") >>, << Some("INR") >>, << Some(TRUE) >>, << >> >> }
    \cup { << << Some("USD") >>, << Some("INR") >>, << Some(TRUE) >>, << Some(t) >> >> :
             t \in RateDates }

FilingInputs ==
    { Dict([ jurisdiction |-> d.jurisdiction, service_days |-> d.service_days,
             annual_revenue |-> d.annual_revenue, dtaa_applied |-> d.dtaa_applied,
             trc_available |-> d.trc_available, service_type |-> d.service_type,
             applied_rate |-> d.applied_rate, statutory_rate |-> d.statutory_rate,
             special_rate_applied |-> d.special[1],
             special_rate_documentation |-> d.special[2],
             currency |-> d.conversion[1], local_currency |-> d.conversion[2],
             official_rate_used |-> d.conversion[3], rate_date |-> d.conversion[4] ]) :
      d \in
        [ jurisdiction : { << >>, << Some("INDIA") >>, << Some("EU") >>, << Some("USA") >> },
          service_days : { << >>, << None >>, << Some(90) >>, << Some(100) >> },
          annual_revenue : { << >>, << Some(500000) >>, << Some(500001) >> },
          dtaa_applied : { << >>, << Some(TRUE) >> },
          trc_available : { << >>, << Some(TRUE) >> },
          service_type : { << >>, << Some("Technical Services") >>, << Some("Software") >> },
          applied_rate : { << >>, << Some(5) >>, << Some(10) >> },
          statutory_rate : { << >>, << Some(10) >> },
          special : SpecialRateInputs,
          conversion : ConversionInputs ] }

FilingRequests ==
    { Request("validate_filing", << d, now >>) : d \in FilingInputs, now \in ValidatorNow }

\* a fresh ComplianceValidator and one validate_filing call on it
InitValidator ==
    /\ EngineInit
    /\ ret = NoCall
    /\ kept = NoCall
    /\ calls = 0
    /\ frames = << >>
    /\ response = NoResponse
    /\ \/ request \in FilingRequests
       \/ request \in ValidatorRequirementsRequests

ValidateFiling ==
    /\ request.op = "validate_filing"
    /\ response = NoResponse
    /\ response' = validate_filing(request.args[1], request.args[2])
    /\ UNCHANGED << engine, ret, kept, calls, frames, request >>

ValidatorValidateRequirements ==
    /\ request.op = "ComplianceValidator.validate_requirements"
    /\ response = NoResponse
    /\ response' = ComplianceValidator_validate_requirements(request.args[1])
    /\ UNCHANGED << engine, ret, kept, calls, frames, request >>

NextValidator ==
    \/ ValidateFiling
    \/ ValidatorValidateRequirements

SpecValidator == InitValidator /\ [][NextValidator]_vars

-----------------------------------------------------------------------------
(* CFOAutomationOrchestrator.process_transaction (src/cfo_automation.py),  *)
(* one step of the workflow at a time.  The frame of the call holds its    *)
(* position, the result dict and the transaction read from the ERP.        *)

\* lines 189-194
CFOFrame(invoice_id) ==
    [ pc |-> "erp",
      result |-> [ invoice_id |-> invoice_id, status |-> "processing",
                   steps |-> << >>, issues |-> << >> ],
      transaction |-> None ]

StepRecord(step, status, data) == [ step |-> step, status |-> status, data |-> data ]

\* result["steps"].append(...)
Recorded(f, step, status, data) ==
    [ f EXCEPT !.result.steps = Append(@, StepRecord(step, status, data)) ]

\* result["issues"].extend(...); result["status"] = "failed"; return result
Failed(f, issues) ==
    [ f EXCEPT !.pc = "returned", !.result.issues = @ \o issues,
               !.result.status = "failed" ]

\* lines 196-207; outcome is what erp.get_transaction_details did
AfterErp(f, outcome) ==
    IF outcome.outcome = "raised"
    THEN Failed(f, << "ERP verification failed: " \o outcome.error >>)
    ELSE [ Recorded(f, "ERP Verification", "completed", outcome.value[1])
             EXCEPT !.pc = "payment", !.transaction = outcome.value ]

\* variant of AfterPayment: an unverified payment is recorded and the
\* workflow goes on
AfterPaymentGoesOn(f, outcome) ==
    IF outcome.outcome = "raised"
    THEN Failed(f, << "Payment verification failed: " \o outcome.error >>)
    ELSE [ Recorded(f, "Payment Verification",
                    IF outcome.value[1] THEN "completed" ELSE "failed",
                    [ verified |-> outcome.value[1] ])
             EXCEPT !.pc = "checklist",
                    !.result.issues = IF outcome.value[1] THEN @
                                      ELSE Append(@, "Payment verification failed") ]

\* lines 209-224; outcome is what payment.verify_payment did
AfterPayment(f, outcome) ==
    IF outcome.outcome = "raised"
    THEN Failed(f, << "Payment verification failed: " \o outcome.error >>)
    ELSE LET payment_verified == outcome.value[1]
             g == Recorded(f, "Payment Verification",
                           IF payment_verified THEN "completed" ELSE "failed",
                           [ verified |-> payment_verified ])
         IN  IF ~payment_verified
             THEN Failed(g, << "Payment verification failed" >>)
             ELSE [ g EXCEPT !.pc = "checklist" ]

\* lines 226-241; the subscripts transaction["country"] and
\* transaction["amount"] raise KeyError when the ERP left the key out
AfterChecklist(f, now) ==
    LET transaction == f.transaction[1]
        checklist ==
            IF "country" \notin DOMAIN transaction THEN RaisedError("'country'")
            ELSE IF "amount" \notin DOMAIN transaction THEN RaisedError("'amount'")
            ELSE generate_checklist([ country |-> transaction["country"],
                                      amount |-> transaction["amount"],
                                      date |-> Some(now) ], now)
    IN  IF checklist.outcome = "raised"
        THEN Failed(f, << "Compliance checklist generation failed: " \o checklist.error >>)
        ELSE [ Recorded(f, "Compliance Checklist", "completed", checklist.value[1])
                 EXCEPT !.pc = "validation" ]

\* lines 243-273
AfterValidation(f) ==
    LET transaction == f.transaction[1]
        filing_history == IF transaction["country"] = Some("India")
                          THEN << "2024Q4", "2025Q1" >> ELSE << >>
        validation == ComplianceValidator_validate_requirements(
                          [ tax_registration |-> Some(TRUE),
                            valid_tax_id |-> GetOr(transaction, "tax_id", << >>),
                            filing_history |-> Some(filing_history) ])
    IN  IF validation.outcome = "raised"
        THEN Failed(f, << "Compliance validation failed: " \o validation.error >>)
        ELSE LET g == Recorded(f, "Compliance Validation",
                               IF validation.value[1].valid THEN "completed" ELSE "failed",
                               validation.value[1])
             IN  IF ~validation.value[1].valid
                 THEN Failed(g, validation.value[1].issues)
                 ELSE [ g EXCEPT !.pc = "returned", !.result.status = "completed" ]

\* one call on a CFOAutomationOrchestrator.  The ERP and the payment
\* gateway are collaborators: each returns a value or raises.
ErpOutcomes ==
    { RaisedError("ERP unavailable") }
    \cup { ReturnedValue(Dict(d)) : d \in
             [ country : { << >>, << Some("India") >>, << Some("Singapore") >> },
               amount : { << >>, << None >>, << Some(10000) >>, << Some(50000) >> },
               tax_id : { << >>, << None >> } \cup { << Some(t) >> : t \in TaxIdInputs } ] }

PaymentOutcomes ==
    { RaisedError("gateway timeout"), ReturnedValue(TRUE), ReturnedValue(FALSE) }

InvoiceInputs == { "INV-001", "INV-002" }

InitCFO ==
    /\ EngineInit
    /\ ret = NoCall
    /\ kept = NoCall
    /\ calls = 0
    /\ response = NoResponse
    /\ \E invoice_id \in InvoiceInputs :
          /\ request = Request("CFOAutomationOrchestrator.process_transaction",
                               << invoice_id >>)
          /\ frames = << CFOFrame(invoice_id) >>

\* the call returns its result dict
Proceed(f) ==
    /\ frames' = << f >>
    /\ response' = IF f.pc = "returned" THEN ReturnedValue(f.result) ELSE response
    /\ UNCHANGED << engine, ret, kept, calls, request >>

StepErpVerification ==
    /\ frames[1].pc = "erp"
    /\ \E outcome \in ErpOutcomes : Proceed(AfterErp(frames[1], outcome))

StepPaymentVerification ==
    /\ frames[1].pc = "payment"
    /\ \E outcome \in PaymentOutcomes : Proceed(AfterPayment(frames[1], outcome))

StepComplianceChecklist ==
    /\ frames[1].pc = "checklist"
    /\ \E now \in NowInputs : Proceed(AfterChecklist(frames[1], now))

StepComplianceValidation ==
    /\ frames[1].pc = "validation"
    /\ Proceed(AfterValidation(frames[1]))

NextCFO ==
    \/ StepErpVerification
    \/ StepPaymentVerification
    \/ StepComplianceChecklist
    \/ StepComplianceValidation

SpecCFO == InitCFO /\ [][NextCFO]_vars

-----------------------------------------------------------------------------
(* What the properties of the validator speak of.                          *)

Codes(issues) == { issues[n].code : n \in 1..Len(issues) }

\* the issues of a list whose code is one of codes, in their order
RECURSIVE WithCodes(_, _)
WithCodes(issues, codes) ==
    IF issues = << >> THEN << >>
    ELSE (IF Head(issues).code \in codes THEN << Head(issues) >> ELSE << >>)
         \o WithCodes(Tail(issues), codes)

\* an issue with this code, risk level and escalation flag is in the list
Reported(issues, code, risk_level, requires_escalation) ==
    \E n \in 1..Len(issues) :
        /\ issues[n].code = code
        /\ RiskLevelValues[issues[n].risk_level] = risk_level
        /\ issues[n].requires_escalation = requires_escalation

\* a numeric field of tax_data: its value, 0 when the key is missing
Number(tax_data, key) == GetOr(tax_data, key, 0)[1]

-----------------------------------------------------------------------------
(* C15.  validate_filing never raises: every failing check and every       *)
(* missing or None field is reported in the ValidationResult.              *)

\* C15: every validate_filing call returns a ValidationResult
C15_ValidateFilingNeverRaises ==
    Answered("validate_filing") => response.outcome = "returned"

-----------------------------------------------------------------------------
(* C16.  validate_filing always runs all four checks, none short-circuits  *)
(* another: the issues returned are the four checks' issues, and valid is  *)
(* true exactly when there are none.                                       *)

\* the issues a check finds when it is run on its own
IssuesOf(check) == IF check.raised THEN << >> ELSE check.issues

\* C16: every call returns the issues of all four checks, in any order of
\* the checks the same set, and valid iff that list is empty
C16_AllFourChecksAccumulate ==
    Answered("validate_filing")
    => LET tax_data == request.args[1]
           pe == IssuesOf(_validate_pe_conditions(tax_data))
           dtaa == IssuesOf(_validate_dtaa_benefits(tax_data))
           rate == IssuesOf(_validate_tax_rates(tax_data))
           curr == IssuesOf(_validate_currency_conversion(tax_data, request.args[2]))
       IN  /\ response.outcome = "returned"
           /\ response.value[1].issues = pe \o dtaa \o rate \o curr
           /\ Range(response.value[1].issues) = Range(curr \o rate \o dtaa \o pe)
           /\ response.value[1].valid <=> response.value[1].issues = << >>

-----------------------------------------------------------------------------
(* C17.  Tax-rate check: RATE001 (MEDIUM, no escalation) whenever the      *)
(* applied rate is below the statutory rate, RATE002 (HIGH, escalate)      *)
(* whenever a special rate was applied without documentation, whatever     *)
(* other fields are present.                                               *)

\* C17: a returned result reports RATE001 for an applied rate below the
\* statutory rate and RATE002 for an undocumented special rate
C17_RateIssuesReported ==
    (Answered("validate_filing") /\ response.outcome = "returned")
    => LET tax_data == request.args[1]
           issues == response.value[1].issues
       IN  /\ ( /\ Get(tax_data, "applied_rate") # None
                /\ GetOr(tax_data, "statutory_rate", 0) # None
                /\ Get(tax_data, "applied_rate")[1] < Number(tax_data, "statutory_rate") )
              => Reported(issues, "RATE001", "Medium", FALSE)
           /\ ( /\ TruthyBool(Get(tax_data, "special_rate_applied"))
                /\ ~TruthyBool(Get(tax_data, "special_rate_documentation")) )
              => Reported(issues, "RATE002", "High", TRUE)

-----------------------------------------------------------------------------
(* C18.  PE check: with a PE threshold for the jurisdiction, PE001 iff     *)
(* service_days > the day threshold and PE002 iff annual_revenue > the     *)
(* amount threshold, each HIGH and escalated; without a threshold, none.   *)

\* the day and amount thresholds the design gives
PeThresholdOf(jurisdiction) ==
    IF jurisdiction = Some("INDIA") THEN Some([ days |-> 90, amount |-> 500000 ])
    ELSE IF jurisdiction = Some("EU") THEN Some([ days |-> 183, amount |-> 100000 ])
    ELSE None

\* the PE codes due for a tax_data whose day and revenue fields are numbers
PeCodesDue(tax_data) ==
    LET threshold == PeThresholdOf(Get(tax_data, "jurisdiction"))
    IN  IF threshold = None THEN { }
        ELSE { c \in { "PE001" } : Number(tax_data, "service_days") > threshold[1].days }
             \cup { c \in { "PE002" } :
                      Number(tax_data, "annual_revenue") > threshold[1].amount }

\* C18: for numeric service_days and annual_revenue the PE check reports
\* exactly the PE codes due, each once, HIGH and escalated, and a returned
\* ValidationResult carries exactly these PE issues
C18_PeIssues ==
    ( /\ Answered("validate_filing")
      /\ GetOr(request.args[1], "service_days", 0) # None
      /\ GetOr(request.args[1], "annual_revenue", 0) # None )
    => LET tax_data == request.args[1]
           pe == _validate_pe_conditions(tax_data)
       IN  /\ ~pe.raised
           /\ Codes(pe.issues) = PeCodesDue(tax_data)
           /\ Len(pe.issues) = Cardinality(PeCodesDue(tax_data))
           /\ \A n \in 1..Len(pe.issues) :
                /\ RiskLevelValues[pe.issues[n].risk_level] = "High"
                /\ pe.issues[n].requires_escalation
           /\ response.outcome = "returned"
              => WithCodes(response.value[1].issues, { "PE001", "PE002" }) = pe.issues

\* INDIA, service_days = 100, no revenue: exactly one PE issue, PE001
C18_Witness ==
    /\ Answered("validate_filing")
    /\ response.outcome = "returned"
    /\ Get(request.args[1], "jurisdiction") = Some("INDIA")
    /\ Get(request.args[1], "service_days") = Some(100)
    /\ "annual_revenue" \notin DOMAIN request.args[1]
    /\ LET pe == WithCodes(response.value[1].issues, { "PE001", "PE002" })
       IN  /\ Len(pe) = 1
           /\ pe[1].code = "PE001"
           /\ pe[1].risk_level = "HIGH"
           /\ pe[1].requires_escalation

-----------------------------------------------------------------------------
(* C19.  DTAA check: with dtaa_applied set, DTAA001 (HIGH, escalate) iff   *)
(* no TRC is on file and DTAA002 (MEDIUM, escalate) iff the service type   *)
(* is not DTAA-eligible; without dtaa_applied, neither.                    *)

\* the DTAA-eligible services: Technical, Professional, Royalty, Interest,
\* Dividend
DtaaEligible ==
    { "Technical Services", "Professional Services", "Royalty", "Interest", "Dividend" }

DtaaCodesDue(tax_data) ==
    IF Get(tax_data, "dtaa_applied") # Some(TRUE) THEN { }
    ELSE { c \in { "DTAA001" } : Get(tax_data, "trc_available") # Some(TRUE) }
         \cup { c \in { "DTAA002" } :
                  \A service \in DtaaEligible :
                      Get(tax_data, "service_type") # Some(service) }

\* C19: a returned ValidationResult carries exactly the DTAA codes due, each
\* once, DTAA001 as HIGH and DTAA002 as MEDIUM, both escalated
C19_DtaaIssues ==
    (Answered("validate_filing") /\ response.outcome = "returned")
    => LET tax_data == request.args[1]
           dtaa == WithCodes(response.value[1].issues, { "DTAA001", "DTAA002" })
       IN  /\ Codes(dtaa) = DtaaCodesDue(tax_data)
           /\ Len(dtaa) = Cardinality(DtaaCodesDue(tax_data))
           /\ \A n \in 1..Len(dtaa) :
                /\ dtaa[n].requires_escalation
                /\ RiskLevelValues[dtaa[n].risk_level] =
                       (IF dtaa[n].code = "DTAA001" THEN "High" ELSE "Medium")

\* DTAA applied, no TRC, service Software: both issues in one result
C19_Witness ==
    /\ Answered("validate_filing")
    /\ response.outcome = "returned"
    /\ Get(request.args[1], "dtaa_applied") = Some(TRUE)
    /\ "trc_available" \notin DOMAIN request.args[1]
    /\ Get(request.args[1], "service_type") = Some("Software")
    /\ Codes(response.value[1].issues) \cap { "DTAA001", "DTAA002" }
           = { "DTAA001", "DTAA002" }

-----------------------------------------------------------------------------
(* C21.  ComplianceValidator.validate_requirements: valid is the           *)
(* conjunction of the checks that apply to the supplied keys, and is true  *)
(* iff issues is empty iff no check has status FAIL.                       *)

\* a tax id of 15 characters in the India GST format: two digits, five
\* capitals, four digits, a capital, a capital or digit, Z, a capital or digit
IsGstNumber(tax_id) ==
    /\ Len(tax_id) = 15
    /\ \A n \in { 1, 2, 8, 9, 10, 11 } : tax_id[n] \in Digits
    /\ \A n \in { 3, 4, 5, 6, 7, 12 } : tax_id[n] \in UpperCase
    /\ \A n \in { 13, 15 } : tax_id[n] \in UpperCase \cup Digits
    /\ tax_id[14] = "Z"

\* the checks that apply to the supplied keys all pass
SuppliedChecksPass(data) ==
    /\ "tax_registration" \in DOMAIN data => data["tax_registration"] = Some(TRUE)
    /\ ("valid_tax_id" \in DOMAIN data /\ Len(data["valid_tax_id"][1]) = 15)
          => IsGstNumber(data["valid_tax_id"][1])
    /\ "filing_history" \in DOMAIN data
          => (data["filing_history"] # None /\ data["filing_history"][1] # << >>)

\* C21: every result has valid = the conjunction of the supplied checks,
\* valid iff issues is empty iff no check entry is FAIL, and a tax id whose
\* length is not 15 adds no check entry
C21_ValidIsConjunctionOfSuppliedChecks ==
    ( /\ Answered("ComplianceValidator.validate_requirements")
      /\ response.outcome = "returned" )
    => LET data == request.args[1]
           result == response.value[1]
       IN  /\ result.valid <=> SuppliedChecksPass(data)
           /\ result.valid <=> result.issues = << >>
           /\ result.valid <=> \A n \in 1..Len(result.checks) :
                                   result.checks[n].status # "FAIL"
           /\ ("valid_tax_id" \in DOMAIN data /\ Len(data["valid_tax_id"][1]) # 15)
                 => \A n \in 1..Len(result.checks) :
                        result.checks[n].type # "Tax ID Format"

\* registered, a filing history, and a tax id of 15 characters that ends in
\* "-": not valid, one FAIL entry, one issue
C21_Witness ==
    /\ Answered("ComplianceValidator.validate_requirements")
    /\ response.outcome = "returned"
    /\ Get(request.args[1], "tax_registration") = Some(TRUE)
    /\ Get(request.args[1], "filing_history") = Some(<< "2023Q1", "2023Q2" >>)
    /\ Get(request.args[1], "valid_tax_id") =
           Some(<< "2", "2", "A", "A", "A", "A", "A", "0", "0", "0", "0", "A", "1", "Z", "-" >>)
    /\ ~response.value[1].valid
    /\ response.value[1].issues = << "Invalid tax ID format: 22AAAAA0000A1Z-" >>

-----------------------------------------------------------------------------
(* C22.  generate_checklist for India: a Registration item (date + 30      *)
(* days) iff amount > 20,000; always the monthly GST item (date + 20 days) *)
(* and the TDS item (date + 7 days).                                       *)

\* the date a generate_checklist call computes its deadlines from
ChecklistDate == GetOr(request.args[1], "date", request.args[2])[1]

\* the checklist has an item of this type and description, due days after
\* the checklist date
HasItem(checklist, type, description, days) ==
    \E n \in 1..Len(checklist) :
        /\ checklist[n].type = type
        /\ checklist[n].description = description
        /\ checklist[n].deadline = PyStr(strftime(PlusDays(ChecklistDate, days)))

-----------------------------------------------------------------------------
(* C23.  The notes of a VAT invoice hold one entry per flag that is set    *)
(* and no null entry.                                                      *)

\* the number of the two flags that are set in the data of a VAT invoice
FlagsSet(tax_data) ==
    (IF TruthyBool(Get(tax_data, "reverse_charge")) THEN 1 ELSE 0)
    + (IF TruthyBool(Get(tax_data, "intra_eu")) THEN 1 ELSE 0)

\* C23: the notes list of generate_vat_invoice never contains a null entry
\* and is as long as the number of flags set
C23_NotesOmitUnsetFlags ==
    Answered("generate_vat_invoice")
    => LET notes == response.value[1].notes
       IN  /\ \A n \in 1..Len(notes) : notes[n] # None
           /\ Len(notes) = FlagsSet(request.args[1])

-----------------------------------------------------------------------------
(* C24.  Form 15CA: part "A" iff the INR amount is at most 500,000, the    *)
(* certificate block present iff it is above.                              *)

\* C24: in every Form 15CA draft part is "A" iff amount_in_inr (0 when
\* missing) <= 500000, else "B", and certificate_details is present iff
\* amount_in_inr > 500000, so part is "B" exactly with the certificate
C24_Form15CAPartAndCertificate ==
    ( /\ Answered("generate_form_15ca")
      /\ response.outcome = "returned" )
    => LET inr == GetOr(request.args[1], "amount_in_inr", 0)[1]
           form == response.value[1]
       IN  /\ form.part \in { "A", "B" }
           /\ form.part = "A" <=> inr <= 500000
           /\ form.certificate_details # None <=> inr > 500000
           /\ form.part = "B" <=> form.certificate_details # None
           /\ "amount_in_inr" \notin DOMAIN request.args[1]
                 => form.part = "A" /\ form.certificate_details = None

\* an amount of exactly 500,000 gives part "A" without certificate
C24_Witness ==
    /\ Answered("generate_form_15ca")
    /\ Get(request.args[1], "amount_in_inr") = Some(500000)
    /\ response.value[1].part = "A"
    /\ response.value[1].certificate_details = None

-----------------------------------------------------------------------------
(* C25.  calculate_due_date returns a date strictly after the transaction  *)
(* date for every filing type.                                             *)

\* C25: calculate_due_date returns, and returns a date strictly later than
\* transaction_date, for the filing types of the table as for unknown ones
C25_DueDateStrictlyLater ==
    Answered("calculate_due_date")
    => /\ response.outcome = "returned"
       /\ ~ NotAfter(response.value[1], request.args[2])

-----------------------------------------------------------------------------
(* C27.  generate_checklist for Singapore holds a GST registration item    *)
(* and an IRAS filing item.                                                *)

\* C27: the checklist for Singapore has a registration item and a filing
\* item (the GST return filed with IRAS)
C27_SingaporeChecklist ==
    ( /\ Answered("generate_checklist")
      /\ response.outcome = "returned"
      /\ Get(request.args[1], "country") = Some("Singapore") )
    => /\ \E n \in 1..Len(response.value[1]) : response.value[1][n].type = "Registration"
       /\ \E n \in 1..Len(response.value[1]) : response.value[1][n].type = "Filing"

-----------------------------------------------------------------------------
(* C26.  AutomationOrchestrator.process_transaction runs resolver,         *)
(* checklist generator, form generator and validator and answers           *)
(* "escalated" iff a validation issue requires escalation, "processed"     *)
(* otherwise.                                                              *)

\* a transaction with a description and with payer and vendor of countries
\* the resolver knows
WellFormed(transaction_data) ==
    /\ Get(transaction_data, "description") # None
    /\ Get(transaction_data, "payer") # None
    /\ Get(transaction_data, "vendor") # None
    /\ Get(transaction_data["payer"][1], "country") # None
    /\ Get(transaction_data["vendor"][1], "country") # None

\* C26: for a well-formed transaction no step raises, and the status is
\* "processed" or "escalated" as the validation issues decide
C26_ProcessedOrEscalated ==
    ( /\ Answered("process_transaction")
      /\ WellFormed(request.args[1]) )
    => response.value[1].status \in { "processed", "escalated" }

-----------------------------------------------------------------------------
(* C28.  CFOAutomationOrchestrator.process_transaction runs ERP            *)
(* Verification, Payment Verification, Compliance Checklist and            *)
(* Compliance Validation in this order and stops at the first failure.     *)

StepOrder ==
    << "ERP Verification", "Payment Verification", "Compliance Checklist",
       "Compliance Validation" >>

\* the steps recorded so far are the first ones of the order, and every
\* step before the last recorded one is completed
InOrder(steps) ==
    /\ Len(steps) <= Len(StepOrder)
    /\ \A n \in 1..Len(steps) : steps[n].step = StepOrder[n]
    /\ \A n \in 1..Len(steps) : n < Len(steps) => steps[n].status = "completed"

AllCompleted(steps) ==
    /\ Len(steps) = Len(StepOrder)
    /\ \A n \in 1..Len(steps) : steps[n].status = "completed"

-----------------------------------------------------------------------------
(* C29.  The tax outcome of get_tax_advice does not depend on              *)
(* transaction_value, has_permanent_establishment or                       *)
(* tax_residency_certificate.                                              *)

ValueVariants == { 0, 10000, 1000000 }

\* the calls that differ from this one in the amount and the two flags only
Variants(args) ==
    { [ args EXCEPT !.transaction_value = x, !.has_permanent_establishment = pe,
                    !.tax_residency_certificate = trc ] :
        x \in ValueVariants, pe \in BOOLEAN, trc \in BOOLEAN }

\* what a call on a freshly constructed engine returns, None when it raises
AdviceOf(args) ==
    LET f == Enter(CalledFrame(args), LoadTaxTreaties)
    IN  IF f.pc = "raised" THEN None
        ELSE LET r == RunLoop(f, LoadTaxRates)
             IN  Some(View(Compose(r.frame, LoadComplianceRequirements), r.table))

\* the notes of an advice that come from the loop, the informational ones
\* left out
LoopNotes(advice) ==
    SelectSeq(advice.compliance_notes,
              LAMBDA note : note \notin
                  { "Tax Residency Certificate available - DTAA benefits applicable",
                    "Permanent Establishment exists - Local tax laws applicable" })

\* C29: a call and every call that differs from it only in
\* transaction_value, has_permanent_establishment or
\* tax_residency_certificate raise together or return the same
\* applicable_taxes, filing_requirements, exemptions, dtaa_treaty and loop
\* notes; permanent_establishment_risk equals the PE flag
C29_OutcomeIndependentOfValueAndFlags ==
    /\ frames # << >> /\ frames[1].pc = "raised"
         => \A b \in Variants(frames[1].args) : AdviceOf(b) = None
    /\ frames # << >> /\ frames[1].pc = "returned"
         => LET a == frames[1].value[1]
            IN  /\ a.permanent_establishment_risk
                     = frames[1].args.has_permanent_establishment
                /\ \A b \in Variants(frames[1].args) :
                      LET other == AdviceOf(b)
                      IN  /\ other # None
                          /\ other[1].applicable_taxes = a.applicable_taxes
                          /\ other[1].filing_requirements = a.filing_requirements
                          /\ other[1].exemptions = a.exemptions
                          /\ other[1].dtaa_treaty = a.dtaa_treaty
                          /\ LoopNotes(other[1]) = LoopNotes(a)
                          /\ other[1].permanent_establishment_risk
                                = b.has_permanent_establishment

\* Singapore pays France for technical services without a residency
\* certificate: the withholding rate of the advice is the treaty's
C29_Witness ==
    /\ frames # << >> /\ frames[1].pc = "returned"
    /\ frames[1].args.payer_country = "Singapore"
    /\ frames[1].args.vendor_country = "France"
    /\ ~ frames[1].args.tax_residency_certificate
    /\ ~ frames[1].args.has_permanent_establishment
    /\ \E n \in 1..Len(frames[1].value[1].applicable_taxes) :
          /\ frames[1].value[1].applicable_taxes[n].tax_type = "WITHHOLDING"
          /\ frames[1].value[1].applicable_taxes[n].rate.rate
                = _get_treaty_rate(frames[1].value[1].dtaa_treaty[1],
                                   frames[1].service_category)[1]
    /\ ~ frames[1].value[1].permanent_establishment_risk

-----------------------------------------------------------------------------
(* C30.  Resolver and validator agree on the services that may take a      *)
(* treaty rate.                                                            *)

\* the filing of a call whose treaty rate was applied with a residency
\* certificate on file
TreatyFiling(args) ==
    [ dtaa_applied |-> Some(TRUE), trc_available |-> Some(TRUE),
      service_type |-> Some(args.service_type) ]

\* C30: whenever the resolver has a treaty rate for the service of a call
\* (_get_treaty_rate gives one under the treaty of the two countries), the
\* validator accepts the service type, and the filing gets no DTAA002
C30_ResolverAndValidatorAgree ==
    ( /\ frames # << >> /\ frames[1].pc = "returned"
      /\ frames[1].dtaa_treaty # None
      /\ _get_treaty_rate(frames[1].dtaa_treaty[1], frames[1].service_category) # None )
    => /\ _is_service_dtaa_eligible(Some(frames[1].args.service_type))
       /\ "DTAA002" \notin
             Codes(IssuesOf(_validate_dtaa_benefits(TreatyFiling(frames[1].args))))

====
